---- MODULE Spec2Model ----
(***************************************************************************)
(* Genesis bootstrap (core/genesis.go) and snail block body validation     *)
(* (core/snailchain/block_validator.go) of the dual-ledger chain.          *)
(*                                                                         *)
(* A hash is modelled as the record of the header fields it is computed    *)
(* over, so two blocks have equal hashes exactly when those fields agree.  *)
(***************************************************************************)
EXTENDS Integers, Sequences, FiniteSets, TLC

VARIABLES db, last, fc, sc, vres, dv, running, body

vars == <<db, last, fc, sc, vres, dv, running, body>>

(***************************************************************************)
(* Bounds of the model.                                                    *)
(***************************************************************************)
MaxFork == 3
MaxHeight == 2
MaxNumber == 1
MaxFast == 6

(***************************************************************************)
(* params.ChainConfig and its compatibility check (package params).        *)
(***************************************************************************)
NoFork == -1

\* A nil *big.Int or *uint64.
NilInt == -1

NilConfig == [name |-> "nil", fork |-> NoFork]

MainnetChainConfig == [name |-> "mainnet", fork |-> 0]

TestnetChainConfig == [name |-> "testnet", fork |-> 0]

AllMinervaProtocolChanges == [name |-> "allminerva", fork |-> 0]

CustomConfigs == {[name |-> "custom", fork |-> f] : f \in 1..MaxFork}

Configs == {MainnetChainConfig, TestnetChainConfig, AllMinervaProtocolChanges} \cup CustomConfigs

\* The configurations a caller's genesis specification carries in this model.
InputConfigs == {MainnetChainConfig, AllMinervaProtocolChanges} \cup CustomConfigs

isForked(s, head) == s # NoFork /\ s <= head

isForkIncompatible(s1, s2, head) == (isForked(s1, head) \/ isForked(s2, head)) /\ s1 # s2

NoCompatError == [conflict |-> FALSE, RewindTo |-> 0]

newCompatError(storedblock, newblock) ==
    LET rew == IF storedblock = NoFork THEN newblock
               ELSE IF newblock = NoFork \/ storedblock < newblock THEN storedblock
               ELSE newblock
    IN [conflict |-> TRUE, RewindTo |-> IF rew > 0 THEN rew - 1 ELSE 0]

CheckCompatible(storedcfg, newcfg, height) ==
    IF isForkIncompatible(storedcfg.fork, newcfg.fork, height)
    THEN newCompatError(storedcfg.fork, newcfg.fork)
    ELSE NoCompatError

(***************************************************************************)
(* Genesis specifications and the blocks derived from them.                *)
(***************************************************************************)
\* Difficulties are counted in units of 1024 (2147483648 = 2097152 * 1024).
DefaultNonce == 330
DefaultGasLimit == 16777216
DefaultDifficulty == 2097152
GenesisGasLimit == 4712388
GenesisDifficulty == 2000000
FruitBlockRatio == 600

ZeroHash == [kind |-> "zero", root |-> "none", gasLimit |-> 0, number |-> 0,
             nonce |-> 0, difficulty |-> 0]

NilGenesis == [present |-> FALSE, Config |-> NilConfig, Alloc |-> "none", GasLimit |-> 0,
               Nonce |-> 0, Difficulty |-> NilInt, Number |-> 0]

DefaultGenesisBlock == [present |-> TRUE, Config |-> MainnetChainConfig, Alloc |-> "mainnet",
                        GasLimit |-> DefaultGasLimit, Nonce |-> DefaultNonce,
                        Difficulty |-> DefaultDifficulty, Number |-> 0]

\* The fast genesis block: the header fields that enter its hash.
ToFastBlock(g) ==
    LET gas == IF g.GasLimit = 0 THEN GenesisGasLimit ELSE g.GasLimit
    IN [Number |-> g.Number,
        Root |-> g.Alloc,
        Hash |-> [kind |-> "fast", root |-> g.Alloc, gasLimit |-> gas, number |-> g.Number,
                  nonce |-> 0, difficulty |-> 0]]

\* The snail genesis block: its header, and its single fruit anchoring the
\* fast genesis block derived from the same specification.
ToSnailBlock(g) ==
    LET diff == IF g.Difficulty = NilInt THEN GenesisDifficulty ELSE g.Difficulty
        fastBlock == ToFastBlock(g)
        fruit == [FastNumber |-> fastBlock.Number, FastHash |-> fastBlock.Hash,
                  FruitDifficulty |-> diff \div FruitBlockRatio, Signs |-> <<>>]
    IN [Number |-> g.Number,
        Difficulty |-> diff,
        Fruits |-> <<fruit>>,
        Hash |-> [kind |-> "snail", root |-> fastBlock.Hash.root,
                  gasLimit |-> fastBlock.Hash.gasLimit, number |-> g.Number,
                  nonce |-> g.Nonce, difficulty |-> diff]]

MainnetGenesisHash == ToFastBlock(DefaultGenesisBlock).Hash

MainnetSnailGenesisHash == ToSnailBlock(DefaultGenesisBlock).Hash

TestnetGenesisHash == [kind |-> "fast", root |-> "testnet", gasLimit |-> 20971520, number |-> 0,
                       nonce |-> 0, difficulty |-> 0]

TestnetSnailGenesisHash == [kind |-> "snail", root |-> "testnet", gasLimit |-> 20971520,
                            number |-> 0, nonce |-> 928, difficulty |-> 100000]

\* configOrDefault without the known-network cases.
configOrDefault_onlySpec(g, ghash) ==
    IF g.present THEN g.Config ELSE AllMinervaProtocolChanges

configOrDefault(g, ghash) ==
    IF g.present THEN g.Config
    ELSE IF ghash = MainnetGenesisHash THEN MainnetChainConfig
    ELSE IF ghash = MainnetSnailGenesisHash THEN MainnetChainConfig
    ELSE IF ghash = TestnetGenesisHash THEN TestnetChainConfig
    ELSE IF ghash = TestnetSnailGenesisHash THEN TestnetChainConfig
    ELSE AllMinervaProtocolChanges

(***************************************************************************)
(* The key-value database: the fast ledger's and the snail ledger's        *)
(* entries (core/rawdb and core/snailchain/rawdb accessors).               *)
(***************************************************************************)
EmptyDB == [fastState |-> {}, fastBlocks |-> {}, fastReceipts |-> {}, fastCanon |-> ZeroHash,
            fastHeadBlock |-> ZeroHash, fastHeadHeader |-> ZeroHash, fastGcBR |-> {},
            fastCfg |-> <<>>,
            snailTd |-> {}, snailBlocks |-> {}, snailFt |-> {}, snailCanon |-> ZeroHash,
            snailHeadBlock |-> ZeroHash, snailHeadHeader |-> ZeroHash]

ReadChainConfig(d, hash) == IF hash \in DOMAIN d.fastCfg THEN d.fastCfg[hash] ELSE NilConfig

ReadHeaderNumber(d, hash) == IF hash \in d.fastBlocks THEN hash.number ELSE NilInt

W(op, hash, cfg) == [op |-> op, hash |-> hash, cfg |-> cfg]

\* The effect of one database write.
ApplyWrite(d, w) ==
    CASE w.op = "fast.state.Commit" -> [d EXCEPT !.fastState = @ \cup {w.hash.root}]
      [] w.op = "fast.WriteBlock" -> [d EXCEPT !.fastBlocks = @ \cup {w.hash}]
      [] w.op = "fast.WriteReceipts" -> [d EXCEPT !.fastReceipts = @ \cup {w.hash}]
      [] w.op = "fast.WriteCanonicalHash" ->
            IF w.hash.number = 0 THEN [d EXCEPT !.fastCanon = w.hash] ELSE d
      [] w.op = "fast.WriteHeadBlockHash" -> [d EXCEPT !.fastHeadBlock = w.hash]
      [] w.op = "fast.WriteHeadHeaderHash" -> [d EXCEPT !.fastHeadHeader = w.hash]
      [] w.op = "fast.WriteStateGcBR" -> [d EXCEPT !.fastGcBR = @ \cup {w.hash.number}]
      [] w.op = "fast.WriteChainConfig" ->
            [d EXCEPT !.fastCfg = [h \in DOMAIN @ \cup {w.hash} |->
                                     IF h = w.hash THEN w.cfg ELSE @[h]]]
      [] w.op = "snail.WriteTd" -> [d EXCEPT !.snailTd = @ \cup {w.hash}]
      [] w.op = "snail.WriteBlock" -> [d EXCEPT !.snailBlocks = @ \cup {w.hash}]
      [] w.op = "snail.WriteFtLookupEntries" -> [d EXCEPT !.snailFt = @ \cup {w.hash}]
      [] w.op = "snail.WriteCanonicalHash" -> [d EXCEPT !.snailCanon = w.hash]
      [] w.op = "snail.WriteHeadBlockHash" -> [d EXCEPT !.snailHeadBlock = w.hash]
      [] w.op = "snail.WriteHeadHeaderHash" -> [d EXCEPT !.snailHeadHeader = w.hash]

RECURSIVE ApplyWrites(_, _)
ApplyWrites(d, ws) == IF ws = <<>> THEN d ELSE ApplyWrites(ApplyWrite(d, Head(ws)), Tail(ws))

(***************************************************************************)
(* Genesis.CommitFast and Genesis.CommitSnail: the writes they issue and   *)
(* what they return (ok = FALSE: a nil block and an error).                *)
(***************************************************************************)
\* CommitFast without the canonical-hash write.
CommitFast_noCanonical(g) ==
    LET block == ToFastBlock(g)
        config == IF g.Config = NilConfig THEN AllMinervaProtocolChanges ELSE g.Config
    IN IF block.Number # 0
       THEN [ok |-> FALSE, hash |-> ZeroHash,
             writes |-> <<W("fast.state.Commit", block.Hash, NilConfig)>>]
       ELSE [ok |-> TRUE, hash |-> block.Hash,
             writes |-> <<W("fast.state.Commit", block.Hash, NilConfig),
                          W("fast.WriteBlock", block.Hash, NilConfig),
                          W("fast.WriteReceipts", block.Hash, NilConfig),
                          W("fast.WriteHeadBlockHash", block.Hash, NilConfig),
                          W("fast.WriteHeadHeaderHash", block.Hash, NilConfig),
                          W("fast.WriteStateGcBR", block.Hash, NilConfig),
                          W("fast.WriteChainConfig", block.Hash, config)>>]

CommitFast(g) ==
    LET block == ToFastBlock(g)
        config == IF g.Config = NilConfig THEN AllMinervaProtocolChanges ELSE g.Config
    IN IF block.Number # 0
       THEN [ok |-> FALSE, hash |-> ZeroHash,
             writes |-> <<W("fast.state.Commit", block.Hash, NilConfig)>>]
       ELSE [ok |-> TRUE, hash |-> block.Hash,
             writes |-> <<W("fast.state.Commit", block.Hash, NilConfig),
                          W("fast.WriteBlock", block.Hash, NilConfig),
                          W("fast.WriteReceipts", block.Hash, NilConfig),
                          W("fast.WriteCanonicalHash", block.Hash, NilConfig),
                          W("fast.WriteHeadBlockHash", block.Hash, NilConfig),
                          W("fast.WriteHeadHeaderHash", block.Hash, NilConfig),
                          W("fast.WriteStateGcBR", block.Hash, NilConfig),
                          W("fast.WriteChainConfig", block.Hash, config)>>]

CommitSnail(g) ==
    LET block == ToSnailBlock(g)
        fast == ToFastBlock(g)
    IN IF block.Number # 0
       THEN [ok |-> FALSE, hash |-> ZeroHash,
             writes |-> <<W("fast.state.Commit", fast.Hash, NilConfig)>>]
       ELSE [ok |-> TRUE, hash |-> block.Hash,
             writes |-> <<W("fast.state.Commit", fast.Hash, NilConfig),
                          W("snail.WriteTd", block.Hash, NilConfig),
                          W("snail.WriteBlock", block.Hash, NilConfig),
                          W("snail.WriteFtLookupEntries", block.Hash, NilConfig),
                          W("snail.WriteCanonicalHash", block.Hash, NilConfig),
                          W("snail.WriteHeadBlockHash", block.Hash, NilConfig),
                          W("snail.WriteHeadHeaderHash", block.Hash, NilConfig)>>]

(***************************************************************************)
(* setupFastGenesisBlock, setupSnailGenesisBlock, SetupGenesisBlock.       *)
(* A result carries the returned values, the error with its payload, the   *)
(* writes issued, and panic = TRUE when the call does not return.          *)
(***************************************************************************)
Result(cfg, hash, err, writes) ==
    [panic |-> FALSE, cfg |-> cfg, hash |-> hash, err |-> err, Stored |-> ZeroHash,
     New |-> ZeroHash, RewindTo |-> 0, writes |-> writes]

Panic(writes) ==
    [panic |-> TRUE, cfg |-> NilConfig, hash |-> ZeroHash, err |-> "panic", Stored |-> ZeroHash,
     New |-> ZeroHash, RewindTo |-> 0, writes |-> writes]

GenesisMismatchError(cfg, stored, hash) ==
    [Result(cfg, hash, "GenesisMismatchError", <<>>) EXCEPT !.Stored = stored, !.New = hash]

ConfigCompatError(cfg, stored, rewindTo) ==
    [Result(cfg, stored, "ConfigCompatError", <<>>) EXCEPT !.RewindTo = rewindTo]

\* setupFastConfig returning every conflict found above block zero, whatever
\* its rewind height.
setupFastConfig_noRewindTest(d, genesis, stored) ==
    LET newcfg == configOrDefault(genesis, stored)
        storedcfg == ReadChainConfig(d, stored)
        height == ReadHeaderNumber(d, d.fastHeadHeader)
        compatErr == CheckCompatible(storedcfg, newcfg, height)
    IN IF storedcfg = NilConfig
       THEN Result(newcfg, stored, "nil", <<W("fast.WriteChainConfig", stored, newcfg)>>)
       ELSE IF ~genesis.present /\ stored # MainnetGenesisHash
       THEN Result(storedcfg, stored, "nil", <<>>)
       ELSE IF height = NilInt
       THEN Result(newcfg, stored, "missing block number for head header hash", <<>>)
       ELSE IF compatErr.conflict /\ height # 0
       THEN ConfigCompatError(newcfg, stored, compatErr.RewindTo)
       ELSE Result(newcfg, stored, "nil", <<W("fast.WriteChainConfig", stored, newcfg)>>)

\* setupFastConfig without the special case for a non-mainnet chain.
setupFastConfig_noSpecialCase(d, genesis, stored) ==
    LET newcfg == configOrDefault(genesis, stored)
        storedcfg == ReadChainConfig(d, stored)
        height == ReadHeaderNumber(d, d.fastHeadHeader)
        compatErr == CheckCompatible(storedcfg, newcfg, height)
    IN IF storedcfg = NilConfig
       THEN Result(newcfg, stored, "nil", <<W("fast.WriteChainConfig", stored, newcfg)>>)
       ELSE IF height = NilInt
       THEN Result(newcfg, stored, "missing block number for head header hash", <<>>)
       ELSE IF compatErr.conflict /\ height # 0 /\ compatErr.RewindTo # 0
       THEN ConfigCompatError(newcfg, stored, compatErr.RewindTo)
       ELSE Result(newcfg, stored, "nil", <<W("fast.WriteChainConfig", stored, newcfg)>>)

\* setupFastConfig reading the head height before looking for a stored
\* configuration.
setupFastConfig_heightFirst(d, genesis, stored) ==
    LET newcfg == configOrDefault(genesis, stored)
        storedcfg == ReadChainConfig(d, stored)
        height == ReadHeaderNumber(d, d.fastHeadHeader)
        compatErr == CheckCompatible(storedcfg, newcfg, height)
    IN IF height = NilInt
       THEN Result(newcfg, stored, "missing block number for head header hash", <<>>)
       ELSE IF storedcfg = NilConfig
       THEN Result(newcfg, stored, "nil", <<W("fast.WriteChainConfig", stored, newcfg)>>)
       ELSE IF ~genesis.present /\ stored # MainnetGenesisHash
       THEN Result(storedcfg, stored, "nil", <<>>)
       ELSE IF compatErr.conflict /\ height # 0 /\ compatErr.RewindTo # 0
       THEN ConfigCompatError(newcfg, stored, compatErr.RewindTo)
       ELSE Result(newcfg, stored, "nil", <<W("fast.WriteChainConfig", stored, newcfg)>>)

\* Lines 191-217: the stored genesis matches (or no specification was given).
setupFastConfig(d, genesis, stored) ==
    LET newcfg == configOrDefault(genesis, stored)
        storedcfg == ReadChainConfig(d, stored)
        height == ReadHeaderNumber(d, d.fastHeadHeader)
        compatErr == CheckCompatible(storedcfg, newcfg, height)
    IN IF storedcfg = NilConfig
       THEN Result(newcfg, stored, "nil", <<W("fast.WriteChainConfig", stored, newcfg)>>)
       ELSE IF ~genesis.present /\ stored # MainnetGenesisHash
       THEN Result(storedcfg, stored, "nil", <<>>)
       ELSE IF height = NilInt
       THEN Result(newcfg, stored, "missing block number for head header hash", <<>>)
       ELSE IF compatErr.conflict /\ height # 0 /\ compatErr.RewindTo # 0
       THEN ConfigCompatError(newcfg, stored, compatErr.RewindTo)
       ELSE Result(newcfg, stored, "nil", <<W("fast.WriteChainConfig", stored, newcfg)>>)

setupFastGenesisBlock(d, genesis) ==
    LET stored == d.fastCanon
        g == IF genesis.present THEN genesis ELSE DefaultGenesisBlock
        c == CommitFast(g)
        hash == ToFastBlock(genesis).Hash
    IN IF genesis.present /\ genesis.Config = NilConfig
       THEN Result(AllMinervaProtocolChanges, ZeroHash, "errGenesisNoConfig", <<>>)
       ELSE IF stored = ZeroHash
       THEN (IF c.ok THEN Result(g.Config, c.hash, "nil", c.writes) ELSE Panic(c.writes))
       ELSE IF genesis.present /\ hash # stored
       THEN GenesisMismatchError(genesis.Config, stored, hash)
       ELSE setupFastConfig(d, genesis, stored)

\* The snail sub-protocol committing the given genesis over a stored one that
\* differs from it.
setupSnailGenesisBlock_recommitsOnMismatch(d, genesis) ==
    LET stored == d.snailCanon
        g == IF genesis.present THEN genesis ELSE DefaultGenesisBlock
        c == CommitSnail(g)
        hash == ToSnailBlock(genesis).Hash
    IN IF genesis.present /\ genesis.Config = NilConfig
       THEN Result(AllMinervaProtocolChanges, ZeroHash, "errGenesisNoConfig", <<>>)
       ELSE IF stored = ZeroHash \/ (genesis.present /\ hash # stored)
       THEN (IF c.ok THEN Result(g.Config, c.hash, "nil", c.writes) ELSE Panic(c.writes))
       ELSE Result(configOrDefault(genesis, stored), stored, "nil", <<>>)

setupSnailGenesisBlock(d, genesis) ==
    LET stored == d.snailCanon
        g == IF genesis.present THEN genesis ELSE DefaultGenesisBlock
        c == CommitSnail(g)
        hash == ToSnailBlock(genesis).Hash
    IN IF genesis.present /\ genesis.Config = NilConfig
       THEN Result(AllMinervaProtocolChanges, ZeroHash, "errGenesisNoConfig", <<>>)
       ELSE IF stored = ZeroHash
       THEN (IF c.ok THEN Result(g.Config, c.hash, "nil", c.writes) ELSE Panic(c.writes))
       ELSE IF genesis.present /\ hash # stored
       THEN GenesisMismatchError(genesis.Config, stored, hash)
       ELSE Result(configOrDefault(genesis, stored), stored, "nil", <<>>)

NoResult ==
    [panic |-> FALSE, cfg |-> NilConfig, fastHash |-> ZeroHash, snailHash |-> ZeroHash,
     err |-> "nil", Stored |-> ZeroHash, New |-> ZeroHash, RewindTo |-> 0, writes |-> <<>>]

\* Lines 145-148: the fast sub-protocol, then the snail sub-protocol on the
\* database the fast one left; the fast configuration, both hashes and the
\* fast error are returned, the snail configuration and error are dropped.
setupBothLedgers(d, genesis) ==
    LET fast == setupFastGenesisBlock(d, genesis)
        snail == setupSnailGenesisBlock(ApplyWrites(d, fast.writes), genesis)
    IN IF fast.panic
       THEN [NoResult EXCEPT !.panic = TRUE, !.err = "panic", !.writes = fast.writes]
       ELSE IF snail.panic
       THEN [NoResult EXCEPT !.panic = TRUE, !.err = "panic",
                             !.writes = fast.writes \o snail.writes]
       ELSE [panic |-> FALSE, cfg |-> fast.cfg, fastHash |-> fast.hash,
             snailHash |-> snail.hash, err |-> fast.err, Stored |-> fast.Stored,
             New |-> fast.New, RewindTo |-> fast.RewindTo,
             writes |-> fast.writes \o snail.writes]

\* SetupGenesisBlock giving up after a failed fast sub-protocol.
SetupGenesisBlock_stopsOnFastError(d, genesis) ==
    LET fast == setupFastGenesisBlock(d, genesis)
    IN IF genesis.present /\ genesis.Config = NilConfig
       THEN [NoResult EXCEPT !.cfg = AllMinervaProtocolChanges, !.err = "errGenesisNoConfig"]
       ELSE IF ~fast.panic /\ fast.err # "nil"
       THEN [panic |-> FALSE, cfg |-> fast.cfg, fastHash |-> fast.hash,
             snailHash |-> ZeroHash, err |-> fast.err, Stored |-> fast.Stored,
             New |-> fast.New, RewindTo |-> fast.RewindTo, writes |-> fast.writes]
       ELSE setupBothLedgers(d, genesis)

\* SetupGenesisBlock defaulting a missing configuration instead of rejecting it.
SetupGenesisBlock_defaultsConfig(d, genesis) ==
    setupBothLedgers(d, IF genesis.present /\ genesis.Config = NilConfig
                        THEN [genesis EXCEPT !.Config = AllMinervaProtocolChanges]
                        ELSE genesis)

\* SetupGenesisBlock returning the specification's own (missing) configuration.
SetupGenesisBlock_returnsSpecConfig(d, genesis) ==
    IF genesis.present /\ genesis.Config = NilConfig
    THEN [NoResult EXCEPT !.cfg = genesis.Config, !.err = "errGenesisNoConfig"]
    ELSE setupBothLedgers(d, genesis)

SetupGenesisBlock(d, genesis) ==
    IF genesis.present /\ genesis.Config = NilConfig
    THEN [NoResult EXCEPT !.cfg = AllMinervaProtocolChanges, !.err = "errGenesisNoConfig"]
    ELSE setupBothLedgers(d, genesis)

(***************************************************************************)
(* The fast chain and the snail chain the validator reads                  *)
(* (core.BlockChain, SnailBlockChain), and the consensus engine.           *)
(*                                                                         *)
(* A uint64 v >= 2^63 is written v - 2^64, so that 0 - 1 is -1 (2^64 - 1)  *)
(* and subtraction and equality of uint64 values are those of the          *)
(* integers.                                                               *)
(***************************************************************************)
MinimumFruits == 2
MaximumFruits == 3
MinTimeGap == 2

FastHeaderHash(n) == [n |-> n, branch |-> "canon"]

UnknownFastHash(n) == [n |-> n, branch |-> "unknown"]

NilHeader == [Number |-> NilInt, Time |-> NilInt]

\* fastchain.CurrentHeader().Number: f.Time[n + 1] is the time of fast block n.
CurrentHeaderNumber(f) == Len(f.Time) - 1

\* fastchain.GetHeader(hash, number)
GetHeader(f, hash, number) ==
    IF hash.branch = "canon" /\ hash.n = number /\ number \in 0..CurrentHeaderNumber(f)
    THEN [Number |-> number, Time |-> f.Time[number + 1]]
    ELSE NilHeader

\* types.CalcSignHash and types.DeriveSha: a digest is modelled by its content.
CalcSignHash(signs) == signs

DeriveSha(fruits) == fruits

\* block.Hash(): the header fields of the block, then those of its ancestors.
HashOf(block) ==
    <<[Number |-> block.Number, Time |-> block.Time, FruitsHash |-> block.FruitsHash]>>
        \o block.ParentHash

NilBlock == [Number |-> NilInt, ParentHash |-> <<>>, Time |-> NilInt, FruitsHash |-> <<>>,
             Fruits |-> <<>>]

\* bc.IsCanonicalBlock, bc.HasBlock, bc.GetBlock: s.canon[n + 1] is the canonical
\* hash at height n, s.blocks the stored blocks.
IsCanonicalBlock(s, hash, number) ==
    number \in 0..(Len(s.canon) - 1) /\ s.canon[number + 1] = hash

HasBlock(s, hash, number) == \E b \in s.blocks : b.Number = number /\ HashOf(b) = hash

GetBlock(s, hash, number) ==
    IF HasBlock(s, hash, number)
    THEN CHOOSE b \in s.blocks : b.Number = number /\ HashOf(b) = hash
    ELSE NilBlock

Verdict(err, calls) == [err |-> err, calls |-> calls]

EngineCall(op, fruit) == [op |-> op, FastNumber |-> fruit.FastNumber]

\* block.Header() of a containing block, nil (the empty sequence) for none:
\* lines 199-202.
HeaderOf(block) == IF block = NilBlock THEN <<>> ELSE HashOf(block)

\* engine.VerifyFreshness(v.bc, fruit.Header(), blockHeader, canonical), line 204.
FreshnessCall(fruit, block, canonical) ==
    [op |-> "VerifyFreshness", FastNumber |-> fruit.FastNumber,
     blockHeader |-> HeaderOf(block), canonical |-> canonical]

\* The three consensus-engine checks of ValidateFruit, lines 198-224; a fruit
\* carries the engine's answer to each of them.
verifyWithEngine(fruit, block, canonical) ==
    LET c1 == <<FreshnessCall(fruit, block, canonical)>>
        c2 == Append(c1, EngineCall("VerifySnailHeader", fruit))
        c3 == Append(c2, EngineCall("VerifySigns", fruit))
    IN IF fruit.Freshness # "nil" THEN Verdict(fruit.Freshness, c1)
       ELSE IF fruit.SnailHeader # "nil" THEN Verdict(fruit.SnailHeader, c2)
       ELSE IF fruit.VerifySigns # "nil" THEN Verdict(fruit.VerifySigns, c3)
       ELSE Verdict("nil", c3)

\* ValidateFruit with the header lookup of lines 181-184 before the number
\* test of lines 175-179.
ValidateFruit_headerFirst(f, fruit, block, canonical) ==
    LET fb == GetHeader(f, fruit.FastHash, fruit.FastNumber)
    IN IF fb = NilHeader THEN Verdict("ErrInvalidFast", <<>>)
       ELSE IF fruit.FastNumber > CurrentHeaderNumber(f) THEN Verdict("ErrFutureBlock", <<>>)
       ELSE IF fruit.Time = NilInt \/ fb.Time = NilInt \/ fruit.Time < fb.Time
       THEN Verdict("ErrFruitTime", <<>>)
       ELSE IF fruit.SignHash # CalcSignHash(fruit.Signs)
       THEN Verdict("ErrInvalidSignHash", <<>>)
       ELSE verifyWithEngine(fruit, block, canonical)

\* Lines 172-225.
ValidateFruit(f, fruit, block, canonical) ==
    LET fb == GetHeader(f, fruit.FastHash, fruit.FastNumber)
    IN IF fruit.FastNumber > CurrentHeaderNumber(f) THEN Verdict("ErrFutureBlock", <<>>)
       ELSE IF fb = NilHeader THEN Verdict("ErrInvalidFast", <<>>)
       ELSE IF fruit.Time = NilInt \/ fb.Time = NilInt \/ fruit.Time < fb.Time
       THEN Verdict("ErrFruitTime", <<>>)
       ELSE IF fruit.SignHash # CalcSignHash(fruit.Signs)
       THEN Verdict("ErrInvalidSignHash", <<>>)
       ELSE verifyWithEngine(fruit, block, canonical)

\* The loop of lines 142-155 without the test of line 143.
RECURSIVE validateFruits_noSequenceTest(_, _, _, _)
validateFruits_noSequenceTest(f, fruits, temp, block) ==
    IF fruits = <<>> THEN Verdict("nil", <<>>)
    ELSE LET fruit == Head(fruits)
             r == ValidateFruit(f, fruit, block, FALSE)
             rest == validateFruits_noSequenceTest(f, Tail(fruits), fruit.FastNumber, block)
         IN IF r.err # "nil" THEN r
            ELSE Verdict(rest.err, r.calls \o rest.calls)

\* The loop of lines 142-155 without the assignment of line 154: every fruit
\* is compared with the parent's last number.
RECURSIVE validateFruits_tempNotAdvanced(_, _, _, _)
validateFruits_tempNotAdvanced(f, fruits, temp, block) ==
    IF fruits = <<>> THEN Verdict("nil", <<>>)
    ELSE LET fruit == Head(fruits)
             r == ValidateFruit(f, fruit, block, FALSE)
             rest == validateFruits_tempNotAdvanced(f, Tail(fruits), temp, block)
         IN IF fruit.FastNumber - temp # 1 THEN Verdict("ErrInvalidFruits", <<>>)
            ELSE IF r.err # "nil" THEN r
            ELSE Verdict(rest.err, r.calls \o rest.calls)

\* The loop of lines 142-155 with ValidateFruit called before the test of
\* line 143.
RECURSIVE validateFruits_validatesFirst(_, _, _, _)
validateFruits_validatesFirst(f, fruits, temp, block) ==
    IF fruits = <<>> THEN Verdict("nil", <<>>)
    ELSE LET fruit == Head(fruits)
             r == ValidateFruit(f, fruit, block, FALSE)
             rest == validateFruits_validatesFirst(f, Tail(fruits), fruit.FastNumber, block)
         IN IF r.err # "nil" THEN r
            ELSE IF fruit.FastNumber - temp # 1 THEN Verdict("ErrInvalidFruits", r.calls)
            ELSE Verdict(rest.err, r.calls \o rest.calls)

\* The loop of lines 142-155 with line 151 returning ErrInvalidFruits in place
\* of the error of ValidateFruit.
RECURSIVE validateFruits_hidesFruitError(_, _, _, _)
validateFruits_hidesFruitError(f, fruits, temp, block) ==
    IF fruits = <<>> THEN Verdict("nil", <<>>)
    ELSE LET fruit == Head(fruits)
             r == ValidateFruit(f, fruit, block, FALSE)
             rest == validateFruits_hidesFruitError(f, Tail(fruits), fruit.FastNumber, block)
         IN IF fruit.FastNumber - temp # 1 THEN Verdict("ErrInvalidFruits", <<>>)
            ELSE IF r.err # "nil" THEN Verdict("ErrInvalidFruits", r.calls)
            ELSE Verdict(rest.err, r.calls \o rest.calls)

\* The loop of lines 142-155: each fruit must anchor temp + 1 and pass
\* ValidateFruit; temp advances to the fruit's number.
RECURSIVE validateFruits(_, _, _, _)
validateFruits(f, fruits, temp, block) ==
    IF fruits = <<>> THEN Verdict("nil", <<>>)
    ELSE LET fruit == Head(fruits)
             r == ValidateFruit(f, fruit, block, FALSE)
             rest == validateFruits(f, Tail(fruits), fruit.FastNumber, block)
         IN IF fruit.FastNumber - temp # 1 THEN Verdict("ErrInvalidFruits", <<>>)
            ELSE IF r.err # "nil" THEN r
            ELSE Verdict(rest.err, r.calls \o rest.calls)

\* fmt.Errorf("fruits hash mismatch: have %x, want %x", hash, header.FruitsHash)
HashMismatch(have, want, calls) ==
    [err |-> "fruits hash mismatch", calls |-> calls, have |-> have, want |-> want]

\* Lines 116-163 with line 129 testing maxfb only.
validateLinked_onlyLastResolved(f, s, block) ==
    LET preBlock == GetBlock(s, block.ParentHash, block.Number - 1)
        localFruits == preBlock.Fruits
        temp == IF preBlock.Number > 0 THEN localFruits[Len(localFruits)].FastNumber ELSE 0
        fruits == block.Fruits
        lastFruit == fruits[Len(fruits)]
        maxfb == GetHeader(f, lastFruit.FastHash, lastFruit.FastNumber)
        minfb == GetHeader(f, fruits[1].FastHash, fruits[1].FastNumber)
        loop == validateFruits(f, fruits, temp, block)
    IN IF preBlock = NilBlock THEN Verdict("ErrUnknownAncestor", <<>>)
       ELSE IF preBlock.Number > 0 /\ localFruits = <<>> THEN Verdict("panic", <<>>)
       ELSE IF maxfb = NilHeader THEN Verdict("ErrFutureBlock", <<>>)
       ELSE IF lastFruit.Time = NilInt \/ block.Time = NilInt \/ block.Time < lastFruit.Time
       THEN Verdict("ErrBlockTime", <<>>)
       ELSE IF maxfb.Time - minfb.Time < MinTimeGap THEN Verdict("ErrGapFruits", <<>>)
       ELSE IF loop.err # "nil" THEN loop
       ELSE IF DeriveSha(block.Fruits) # block.FruitsHash
       THEN HashMismatch(DeriveSha(block.Fruits), block.FruitsHash, loop.calls)
       ELSE Verdict("nil", loop.calls)

\* Lines 116-163 with line 132 rejecting a block time equal to the last
\* fruit's as well.
validateLinked_strictBlockTime(f, s, block) ==
    LET preBlock == GetBlock(s, block.ParentHash, block.Number - 1)
        localFruits == preBlock.Fruits
        temp == IF preBlock.Number > 0 THEN localFruits[Len(localFruits)].FastNumber ELSE 0
        fruits == block.Fruits
        lastFruit == fruits[Len(fruits)]
        maxfb == GetHeader(f, lastFruit.FastHash, lastFruit.FastNumber)
        minfb == GetHeader(f, fruits[1].FastHash, fruits[1].FastNumber)
        loop == validateFruits(f, fruits, temp, block)
    IN IF preBlock = NilBlock THEN Verdict("ErrUnknownAncestor", <<>>)
       ELSE IF preBlock.Number > 0 /\ localFruits = <<>> THEN Verdict("panic", <<>>)
       ELSE IF minfb = NilHeader \/ maxfb = NilHeader THEN Verdict("ErrFutureBlock", <<>>)
       ELSE IF lastFruit.Time = NilInt \/ block.Time = NilInt \/ block.Time <= lastFruit.Time
       THEN Verdict("ErrBlockTime", <<>>)
       ELSE IF maxfb.Time - minfb.Time < MinTimeGap THEN Verdict("ErrGapFruits", <<>>)
       ELSE IF loop.err # "nil" THEN loop
       ELSE IF DeriveSha(block.Fruits) # block.FruitsHash
       THEN HashMismatch(DeriveSha(block.Fruits), block.FruitsHash, loop.calls)
       ELSE Verdict("nil", loop.calls)

\* Lines 116-163 with line 137 rejecting a gap equal to the minimum as well.
validateLinked_gapAboveMinimum(f, s, block) ==
    LET preBlock == GetBlock(s, block.ParentHash, block.Number - 1)
        localFruits == preBlock.Fruits
        temp == IF preBlock.Number > 0 THEN localFruits[Len(localFruits)].FastNumber ELSE 0
        fruits == block.Fruits
        lastFruit == fruits[Len(fruits)]
        maxfb == GetHeader(f, lastFruit.FastHash, lastFruit.FastNumber)
        minfb == GetHeader(f, fruits[1].FastHash, fruits[1].FastNumber)
        loop == validateFruits(f, fruits, temp, block)
    IN IF preBlock = NilBlock THEN Verdict("ErrUnknownAncestor", <<>>)
       ELSE IF preBlock.Number > 0 /\ localFruits = <<>> THEN Verdict("panic", <<>>)
       ELSE IF minfb = NilHeader \/ maxfb = NilHeader THEN Verdict("ErrFutureBlock", <<>>)
       ELSE IF lastFruit.Time = NilInt \/ block.Time = NilInt \/ block.Time < lastFruit.Time
       THEN Verdict("ErrBlockTime", <<>>)
       ELSE IF maxfb.Time - minfb.Time <= MinTimeGap THEN Verdict("ErrGapFruits", <<>>)
       ELSE IF loop.err # "nil" THEN loop
       ELSE IF DeriveSha(block.Fruits) # block.FruitsHash
       THEN HashMismatch(DeriveSha(block.Fruits), block.FruitsHash, loop.calls)
       ELSE Verdict("nil", loop.calls)

\* Lines 116-163 without the fruits-hash test of lines 157-159.
validateLinked_noFruitsHashTest(f, s, block) ==
    LET preBlock == GetBlock(s, block.ParentHash, block.Number - 1)
        localFruits == preBlock.Fruits
        temp == IF preBlock.Number > 0 THEN localFruits[Len(localFruits)].FastNumber ELSE 0
        fruits == block.Fruits
        lastFruit == fruits[Len(fruits)]
        maxfb == GetHeader(f, lastFruit.FastHash, lastFruit.FastNumber)
        minfb == GetHeader(f, fruits[1].FastHash, fruits[1].FastNumber)
        loop == validateFruits(f, fruits, temp, block)
    IN IF preBlock = NilBlock THEN Verdict("ErrUnknownAncestor", <<>>)
       ELSE IF preBlock.Number > 0 /\ localFruits = <<>> THEN Verdict("panic", <<>>)
       ELSE IF minfb = NilHeader \/ maxfb = NilHeader THEN Verdict("ErrFutureBlock", <<>>)
       ELSE IF lastFruit.Time = NilInt \/ block.Time = NilInt \/ block.Time < lastFruit.Time
       THEN Verdict("ErrBlockTime", <<>>)
       ELSE IF maxfb.Time - minfb.Time < MinTimeGap THEN Verdict("ErrGapFruits", <<>>)
       ELSE IF loop.err # "nil" THEN loop
       ELSE Verdict("nil", loop.calls)

\* Lines 116-163, once the candidate is linkable and its fruit count in range.
validateLinked(f, s, block) ==
    LET preBlock == GetBlock(s, block.ParentHash, block.Number - 1)
        localFruits == preBlock.Fruits
        temp == IF preBlock.Number > 0 THEN localFruits[Len(localFruits)].FastNumber ELSE 0
        fruits == block.Fruits
        lastFruit == fruits[Len(fruits)]
        maxfb == GetHeader(f, lastFruit.FastHash, lastFruit.FastNumber)
        minfb == GetHeader(f, fruits[1].FastHash, fruits[1].FastNumber)
        loop == validateFruits(f, fruits, temp, block)
    IN IF preBlock = NilBlock THEN Verdict("ErrUnknownAncestor", <<>>)
       ELSE IF preBlock.Number > 0 /\ localFruits = <<>> THEN Verdict("panic", <<>>)
       ELSE IF minfb = NilHeader \/ maxfb = NilHeader THEN Verdict("ErrFutureBlock", <<>>)
       ELSE IF lastFruit.Time = NilInt \/ block.Time = NilInt \/ block.Time < lastFruit.Time
       THEN Verdict("ErrBlockTime", <<>>)
       ELSE IF maxfb.Time - minfb.Time < MinTimeGap THEN Verdict("ErrGapFruits", <<>>)
       ELSE IF loop.err # "nil" THEN loop
       ELSE IF DeriveSha(block.Fruits) # block.FruitsHash
       THEN HashMismatch(DeriveSha(block.Fruits), block.FruitsHash, loop.calls)
       ELSE Verdict("nil", loop.calls)

\* engine.VerifySnailSeal(chain, header, isFruit): a header carries the
\* engine's answer for each value of the flag.
EngineSeal(chain, header, isFruit) ==
    Verdict(IF isFruit THEN header.FruitSeal ELSE header.BlockSeal,
            <<[op |-> "VerifySnailSeal", chain |-> chain, Number |-> header.Number,
               isFruit |-> isFruit]>>)

\* VerifySnailSeal handing the caller's isFruit to the engine.
VerifySnailSeal_passesIsFruit(chain, header, isFruit) == EngineSeal(chain, header, isFruit)

\* Lines 167-169.
VerifySnailSeal(chain, header, isFruit) == EngineSeal(chain, header, TRUE)

\* The configured bounds on the fruit count of a block.
FruitLimits == [MinimumFruits |-> MinimumFruits, MaximumFruits |-> MaximumFruits]

\* ValidateBody under bounds lim, without the count == 0 test of lines 109-111.
ValidateBodyUnder_noZeroTest(lim, f, s, block) ==
    LET count == Len(block.Fruits)
    IN IF IsCanonicalBlock(s, HashOf(block), block.Number) THEN Verdict("ErrKnownBlock", <<>>)
       ELSE IF ~IsCanonicalBlock(s, block.ParentHash, block.Number - 1)
       THEN (IF ~HasBlock(s, block.ParentHash, block.Number - 1)
             THEN Verdict("ErrUnknownAncestor", <<>>)
             ELSE Verdict("ErrPrunedAncestor", <<>>))
       ELSE IF count > lim.MaximumFruits \/ count < lim.MinimumFruits
       THEN Verdict("ErrNoFruits", <<>>)
       ELSE IF count = 0 THEN Verdict("panic", <<>>)
       ELSE validateLinked(f, s, block)

\* ValidateBody under bounds lim, with the parent of a height-0 candidate
\* looked up at height 0 instead of NumberU64()-1.
ValidateBodyUnder_parentAtZero(lim, f, s, block) ==
    LET count == Len(block.Fruits)
        below == IF block.Number = 0 THEN 0 ELSE block.Number - 1
    IN IF IsCanonicalBlock(s, HashOf(block), block.Number) THEN Verdict("ErrKnownBlock", <<>>)
       ELSE IF ~IsCanonicalBlock(s, block.ParentHash, below)
       THEN (IF ~HasBlock(s, block.ParentHash, below)
             THEN Verdict("ErrUnknownAncestor", <<>>)
             ELSE Verdict("ErrPrunedAncestor", <<>>))
       ELSE IF count = 0 THEN Verdict("ErrNoFruits", <<>>)
       ELSE IF count > lim.MaximumFruits \/ count < lim.MinimumFruits
       THEN Verdict("ErrNoFruits", <<>>)
       ELSE validateLinked(f, s, block)

\* ValidateBody under bounds lim, without the HasBlock test of lines 100-102.
ValidateBodyUnder_noHasBlockTest(lim, f, s, block) ==
    LET count == Len(block.Fruits)
    IN IF IsCanonicalBlock(s, HashOf(block), block.Number) THEN Verdict("ErrKnownBlock", <<>>)
       ELSE IF ~IsCanonicalBlock(s, block.ParentHash, block.Number - 1)
       THEN Verdict("ErrUnknownAncestor", <<>>)
       ELSE IF count = 0 THEN Verdict("ErrNoFruits", <<>>)
       ELSE IF count > lim.MaximumFruits \/ count < lim.MinimumFruits
       THEN Verdict("ErrNoFruits", <<>>)
       ELSE validateLinked(f, s, block)

\* ValidateBody under bounds lim, without the known-block test of lines 95-97.
ValidateBodyUnder_noKnownTest(lim, f, s, block) ==
    LET count == Len(block.Fruits)
    IN IF ~IsCanonicalBlock(s, block.ParentHash, block.Number - 1)
       THEN (IF ~HasBlock(s, block.ParentHash, block.Number - 1)
             THEN Verdict("ErrUnknownAncestor", <<>>)
             ELSE Verdict("ErrPrunedAncestor", <<>>))
       ELSE IF count = 0 THEN Verdict("ErrNoFruits", <<>>)
       ELSE IF count > lim.MaximumFruits \/ count < lim.MinimumFruits
       THEN Verdict("ErrNoFruits", <<>>)
       ELSE validateLinked(f, s, block)

\* Lines 93-163 with params.MinimumFruits and params.MaximumFruits set to lim.
ValidateBodyUnder(lim, f, s, block) ==
    LET count == Len(block.Fruits)
    IN IF IsCanonicalBlock(s, HashOf(block), block.Number) THEN Verdict("ErrKnownBlock", <<>>)
       ELSE IF ~IsCanonicalBlock(s, block.ParentHash, block.Number - 1)
       THEN (IF ~HasBlock(s, block.ParentHash, block.Number - 1)
             THEN Verdict("ErrUnknownAncestor", <<>>)
             ELSE Verdict("ErrPrunedAncestor", <<>>))
       ELSE IF count = 0 THEN Verdict("ErrNoFruits", <<>>)
       ELSE IF count > lim.MaximumFruits \/ count < lim.MinimumFruits
       THEN Verdict("ErrNoFruits", <<>>)
       ELSE validateLinked(f, s, block)

ValidateBody(f, s, block) == ValidateBodyUnder(FruitLimits, f, s, block)

\* No candidate is waiting to be validated.
NoBody == [limits |-> FruitLimits, block |-> NilBlock]

(***************************************************************************)
(* The calls made on the database.  last records the most recent call:     *)
(* its operation, its argument, the database before it, and its result.    *)
(***************************************************************************)
DevNonce == 928

Allocs == {"mainnet", "custom"}

Nonces == {DefaultNonce, DevNonce}

\* Specifications of production genesis blocks: Number is zero.
ProductionSpecs ==
    {[present |-> TRUE, Config |-> c, Alloc |-> a, GasLimit |-> DefaultGasLimit, Nonce |-> n,
      Difficulty |-> DefaultDifficulty, Number |-> 0] :
        c \in InputConfigs \cup {NilConfig}, a \in Allocs, n \in Nonces}

\* Specifications of consensus-test fixtures: Number is not zero.
FixtureSpecs ==
    {[present |-> TRUE, Config |-> AllMinervaProtocolChanges, Alloc |-> a,
      GasLimit |-> DefaultGasLimit, Nonce |-> DefaultNonce,
      Difficulty |-> DefaultDifficulty, Number |-> k] : a \in Allocs, k \in 1..MaxNumber}

GenesisInputs == ProductionSpecs \cup FixtureSpecs

\* No genesis block has been derived, and no call is in progress.
NoDerivation == [g |-> NilGenesis, n |-> 0, panic |-> FALSE, fast |-> {}, snail |-> {},
                 kind |-> "none", from |-> NilGenesis, block |-> <<>>]

NoCalls == <<>>

NoCall == [op |-> "none", genesis |-> NilGenesis, pre |-> EmptyDB, ret |-> NoResult]

\* The fast chain holding only its genesis block, and the snail chain holding
\* only the snail genesis block.
FastGenesisChain == [Time |-> <<0>>]

GenesisFruit ==
    [FastNumber |-> ToSnailBlock(DefaultGenesisBlock).Fruits[1].FastNumber,
     FastHash |-> FastHeaderHash(0), Time |-> 0, Signs |-> <<>>, SignHash |-> CalcSignHash(<<>>),
     Freshness |-> "nil", SnailHeader |-> "nil", VerifySigns |-> "nil"]

SnailGenesisBlock ==
    [Number |-> 0, ParentHash |-> <<>>, Time |-> 0, FruitsHash |-> DeriveSha(<<GenesisFruit>>),
     Fruits |-> <<GenesisFruit>>]

SnailGenesisChain == [canon |-> <<HashOf(SnailGenesisBlock)>>, blocks |-> {SnailGenesisBlock}]

Init ==
    /\ db = EmptyDB
    /\ last = NoCall
    /\ fc = FastGenesisChain
    /\ sc = SnailGenesisChain
    /\ vres = Verdict("none", <<>>)
    /\ dv = NoDerivation
    /\ running = NoCalls
    /\ body = NoBody

ErrNonZeroNumber == "can't commit genesis block with number > 0"

\* SetupGenesisBlock(db, genesis), genesis nil or not.
CallSetupGenesisBlock ==
    /\ \E genesis \in GenesisInputs \cup {NilGenesis} :
           LET r == SetupGenesisBlock(db, genesis)
           IN /\ db' = ApplyWrites(db, r.writes)
              /\ last' = [op |-> "SetupGenesisBlock", genesis |-> genesis, pre |-> db, ret |-> r]
    /\ UNCHANGED <<fc, sc, vres, dv, running, body>>

\* g.CommitFast(db) on a fresh fast ledger, as the bootstrap helpers call it.
CallCommitFast ==
    /\ db.fastCanon = ZeroHash
    /\ \E genesis \in GenesisInputs :
        LET c == CommitFast(genesis)
        IN /\ db' = ApplyWrites(db, c.writes)
           /\ last' = [op |-> "CommitFast", genesis |-> genesis, pre |-> db,
                       ret |-> [NoResult EXCEPT !.fastHash = c.hash, !.writes = c.writes,
                                  !.err = IF c.ok THEN "nil" ELSE ErrNonZeroNumber]]
    /\ UNCHANGED <<fc, sc, vres, dv, running, body>>

\* g.CommitSnail(db) on a fresh snail ledger.
CallCommitSnail ==
    /\ db.snailCanon = ZeroHash
    /\ \E genesis \in GenesisInputs :
        LET c == CommitSnail(genesis)
        IN /\ db' = ApplyWrites(db, c.writes)
           /\ last' = [op |-> "CommitSnail", genesis |-> genesis, pre |-> db,
                       ret |-> [NoResult EXCEPT !.snailHash = c.hash, !.writes = c.writes,
                                  !.err = IF c.ok THEN "nil" ELSE ErrNonZeroNumber]]
    /\ UNCHANGED <<fc, sc, vres, dv, running, body>>

\* The fast chain grows by one block on top of its head header.
FastChainGrows ==
    LET head == db.fastHeadHeader
        next == [head EXCEPT !.kind = "fastblock", !.number = head.number + 1]
        ws == <<W("fast.WriteBlock", next, NilConfig),
                W("fast.WriteCanonicalHash", next, NilConfig),
                W("fast.WriteHeadBlockHash", next, NilConfig),
                W("fast.WriteHeadHeaderHash", next, NilConfig)>>
    IN /\ head # ZeroHash
       /\ head.number < MaxHeight
       /\ db' = ApplyWrites(db, ws)
       /\ last' = [op |-> "FastChainGrows", genesis |-> NilGenesis, pre |-> db,
                   ret |-> [NoResult EXCEPT !.writes = ws]]
       /\ UNCHANGED <<fc, sc, vres, dv, running, body>>

\* The specifications whose commit is seen interrupted.
CrashSpecs ==
    {g \in ProductionSpecs : g.Config \in {MainnetChainConfig, AllMinervaProtocolChanges}
                              /\ g.Nonce = DefaultNonce}

\* The program stops inside g.CommitFast(db) on a fresh fast ledger: only the
\* first n writes of lines 223-238 have reached the database.
CrashInCommitFast ==
    /\ db.fastCanon = ZeroHash
    /\ db.fastBlocks = {}
    /\ \E genesis \in CrashSpecs :
        LET c == CommitFast(genesis)
        IN \E n \in 1..(Len(c.writes) - 1) :
            LET ws == SubSeq(c.writes, 1, n)
            IN /\ db' = ApplyWrites(db, ws)
               /\ last' = [op |-> "CrashInCommitFast", genesis |-> genesis, pre |-> db,
                           ret |-> [NoResult EXCEPT !.panic = TRUE, !.err = "crash",
                                                    !.writes = ws]]
    /\ UNCHANGED <<fc, sc, vres, dv, running, body>>

\* The program stops inside g.CommitSnail(db) on a fresh snail ledger.
CrashInCommitSnail ==
    /\ db.snailCanon = ZeroHash
    /\ db.snailBlocks = {}
    /\ \E genesis \in CrashSpecs :
        LET c == CommitSnail(genesis)
        IN \E n \in 1..(Len(c.writes) - 1) :
            LET ws == SubSeq(c.writes, 1, n)
            IN /\ db' = ApplyWrites(db, ws)
               /\ last' = [op |-> "CrashInCommitSnail", genesis |-> genesis, pre |-> db,
                           ret |-> [NoResult EXCEPT !.panic = TRUE, !.err = "crash",
                                                    !.writes = ws]]
    /\ UNCHANGED <<fc, sc, vres, dv, running, body>>

Next == CallSetupGenesisBlock \/ CallCommitFast \/ CallCommitSnail \/ FastChainGrows

Spec == Init /\ [][Next]_vars

\* SetupGenesisBlock(db, genesis) when the program starts again.
RestartSetupGenesisBlock ==
    /\ \E genesis \in CrashSpecs \cup {NilGenesis} :
           LET r == SetupGenesisBlock(db, genesis)
           IN /\ db' = ApplyWrites(db, r.writes)
              /\ last' = [op |-> "SetupGenesisBlock", genesis |-> genesis, pre |-> db, ret |-> r]
    /\ UNCHANGED <<fc, sc, vres, dv, running, body>>

CrashNext ==
    \/ CrashInCommitFast
    \/ CrashInCommitSnail
    \/ RestartSetupGenesisBlock
    \/ FastChainGrows

\* The database under commits that may be interrupted and later restarts.
SpecCrash == Init /\ [][CrashNext]_vars

(***************************************************************************)
(* The snail chain built by inserting the candidates ValidateBody accepts. *)
(***************************************************************************)
FastSteps == {1, 2}

\* The times of fast blocks 0..MaxFast, the steps between them alternating
\* between a and b.
FastTimes(a, b) == [i \in 1..(MaxFast + 1) |-> (i \div 2) * a + ((i - 1) \div 2) * b]

\* The fruit an honest miner makes for fast block k.
HonestFruit(f, k) ==
    [FastNumber |-> k, FastHash |-> FastHeaderHash(k),
     Time |-> IF k \in 0..CurrentHeaderNumber(f) THEN f.Time[k + 1] ELSE 0,
     Signs |-> <<k>>, SignHash |-> CalcSignHash(<<k>>),
     Freshness |-> "nil", SnailHeader |-> "nil", VerifySigns |-> "nil"]

Deltas == {0, 1, 2}

\* The anchored numbers of a candidate's fruits: any start, then a repeat,
\* the next number or a gap at each step.
RECURSIVE NumberRuns(_)
NumberRuns(len) ==
    IF len = 0 THEN {<<>>}
    ELSE IF len = 1 THEN {<<k>> : k \in 0..(MaxFast + 1)}
    ELSE {Append(r, r[Len(r)] + d) : r \in NumberRuns(len - 1), d \in Deltas}

CandidateNumbers == UNION {NumberRuns(len) : len \in 0..(MaximumFruits + 1)}

UnknownSnailHash == <<[Number |-> NilInt, Time |-> NilInt, FruitsHash |-> <<>>]>>

\* What may be wrong with a candidate besides the numbers its fruits anchor.
Defects == {"none", "orphan", "early", "fruitsHash"}

CandidateBlock(f, s, number, nums, defect) ==
    LET fruits == [i \in 1..Len(nums) |-> HonestFruit(f, nums[i])]
        last_time == IF fruits = <<>> THEN 0 ELSE fruits[Len(fruits)].Time
    IN [Number |-> number,
        ParentHash |-> IF defect = "orphan" \/ number = 0 THEN UnknownSnailHash
                       ELSE s.canon[number],
        Time |-> IF defect = "early" THEN last_time - 1 ELSE last_time,
        FruitsHash |-> IF defect = "fruitsHash" THEN DeriveSha(<<>>) ELSE DeriveSha(fruits),
        Fruits |-> fruits]

ChainInit ==
    /\ db = EmptyDB
    /\ last = NoCall
    /\ \E a \in FastSteps, b \in FastSteps : fc = [Time |-> FastTimes(a, b)]
    /\ sc = SnailGenesisChain
    /\ vres = Verdict("none", <<>>)
    /\ dv = NoDerivation
    /\ running = NoCalls
    /\ body = NoBody

\* A candidate for some height up to head + 1 is validated; one that is
\* accepted for height head + 1 becomes the new canonical head.
ValidateAndInsert ==
    \E number \in 0..Len(sc.canon), nums \in CandidateNumbers, defect \in Defects :
        LET block == CandidateBlock(fc, sc, number, nums, defect)
            r == ValidateBody(fc, sc, block)
        IN /\ vres' = Verdict(r.err, <<>>)
           /\ sc' = IF r.err = "nil" /\ number = Len(sc.canon)
                    THEN [canon |-> Append(sc.canon, HashOf(block)),
                          blocks |-> sc.blocks \cup {block}]
                    ELSE sc
           /\ UNCHANGED <<db, last, fc, dv, running, body>>

ChainNext == ValidateAndInsert

SpecChain == ChainInit /\ [][ChainNext]_vars

\* The fast-block numbers anchored by the fruits of the canonical blocks at
\* heights 1..head, in chain order and fruit order.
RECURSIVE AnchorsUpTo(_, _)
AnchorsUpTo(s, height) ==
    IF height = 0 THEN <<>>
    ELSE LET b == GetBlock(s, s.canon[height + 1], height)
         IN AnchorsUpTo(s, height - 1) \o [i \in 1..Len(b.Fruits) |-> b.Fruits[i].FastNumber]

ChainAnchors == AnchorsUpTo(sc, Len(sc.canon) - 1)

\* C1: in a snail chain built from the genesis by appending candidates that
\* ValidateBody accepted, the anchored fast-block numbers of heights 1..h
\* read 1, 2, ..., k: no gap, no repeat, no overlap between blocks.
C1_AnchorsContiguous == \A i \in 1..Len(ChainAnchors) : ChainAnchors[i] = i

C1_Witness ==
    /\ Len(sc.canon) >= 3
    /\ Len(ChainAnchors) >= 5
    /\ C1_AnchorsContiguous

(***************************************************************************)
(* Properties of SetupGenesisBlock.                                        *)
(***************************************************************************)
IsSetup == last.op = "SetupGenesisBlock"

HasConfig(g) == g.present /\ g.Config # NilConfig

WritesOf(ws, op) == {i \in DOMAIN ws : ws[i].op = op}

\* The head height the fast setup reads before the call.
PreHeight == ReadHeaderNumber(last.pre, last.pre.fastHeadHeader)

\* The configuration stored for the stored fast genesis before the call.
PreStoredCfg == ReadChainConfig(last.pre, last.pre.fastCanon)

\* The call reached the compatibility check of lines 212-217.
ReachedCompatCheck ==
    /\ IsSetup
    /\ last.pre.fastCanon # ZeroHash
    /\ PreStoredCfg # NilConfig
    /\ PreHeight # NilInt
    /\ \/ HasConfig(last.genesis) /\ ToFastBlock(last.genesis).Hash = last.pre.fastCanon
       \/ ~last.genesis.present /\ last.pre.fastCanon = MainnetGenesisHash

PreNewCfg == configOrDefault(last.genesis, last.pre.fastCanon)

PreCompatErr == CheckCompatible(PreStoredCfg, PreNewCfg, PreHeight)

\* C2: whenever the fast ledger holds a genesis other than the one derived
\* from the supplied specification, SetupGenesisBlock returns a
\* GenesisMismatchError carrying the stored and the computed hash and writes
\* nothing to either ledger, whatever the snail ledger holds.
C2_MismatchWritesNothing ==
    (/\ IsSetup
     /\ HasConfig(last.genesis)
     /\ last.pre.fastCanon # ZeroHash
     /\ last.pre.fastCanon # ToFastBlock(last.genesis).Hash)
    => /\ ~last.ret.panic
       /\ last.ret.err = "GenesisMismatchError"
       /\ last.ret.Stored = last.pre.fastCanon
       /\ last.ret.New = ToFastBlock(last.genesis).Hash
       /\ last.ret.writes = <<>>
       /\ db = last.pre

\* The database after SetupGenesisBlock(nil) on the empty database.
FirstNilCall == SetupGenesisBlock(EmptyDB, NilGenesis)

AfterFirstNilCall == ApplyWrites(EmptyDB, FirstNilCall.writes)

IsSecondNilCall == IsSetup /\ ~last.genesis.present /\ last.pre = AfterFirstNilCall

\* C3 as stated: the second SetupGenesisBlock(nil) returns the hashes of the
\* first and issues no write at all.
C3_SecondNilCallIssuesNoWrite ==
    IsSecondNilCall
    => /\ last.ret.fastHash = FirstNilCall.fastHash
       /\ last.ret.snailHash = FirstNilCall.snailHash
       /\ last.ret.writes = <<>>

\* C3 as amended: the second SetupGenesisBlock(nil) returns the hashes of the
\* first with a nil error and leaves the database unchanged; the only write it
\* issues rewrites the fast chain configuration with the value already stored.
C3_SecondNilCallIdempotent ==
    IsSecondNilCall
    => /\ ~last.ret.panic
       /\ last.ret.err = "nil"
       /\ last.ret.fastHash = FirstNilCall.fastHash
       /\ last.ret.snailHash = FirstNilCall.snailHash
       /\ db = last.pre
       /\ \A i \in DOMAIN last.ret.writes :
            /\ last.ret.writes[i].op = "fast.WriteChainConfig"
            /\ last.ret.writes[i].cfg = ReadChainConfig(last.pre, last.ret.writes[i].hash)

C3_Witness == IsSecondNilCall /\ last.ret.fastHash = MainnetGenesisHash /\ db = AfterFirstNilCall

\* C4: on a database where neither ledger has a canonical height-zero hash,
\* SetupGenesisBlock(nil) returns the main-net configuration, the hashes of
\* the default fast and snail genesis blocks and a nil error, and each
\* ledger's canonical hash at height 0 is then the hash returned for it.
C4_DefaultGenesisOnEmptyStore ==
    (/\ IsSetup
     /\ ~last.genesis.present
     /\ last.pre.fastCanon = ZeroHash
     /\ last.pre.snailCanon = ZeroHash)
    => /\ ~last.ret.panic
       /\ last.ret.cfg = MainnetChainConfig
       /\ last.ret.fastHash = ToFastBlock(DefaultGenesisBlock).Hash
       /\ last.ret.snailHash = ToSnailBlock(DefaultGenesisBlock).Hash
       /\ last.ret.err = "nil"
       /\ db.fastCanon = last.ret.fastHash
       /\ db.snailCanon = last.ret.snailHash

C4_Witness ==
    /\ IsSetup
    /\ ~last.genesis.present
    /\ last.pre.fastCanon = ZeroHash
    /\ last.pre.snailCanon = ZeroHash
    /\ db.fastCanon = ToFastBlock(DefaultGenesisBlock).Hash
    /\ db.snailCanon = ToSnailBlock(DefaultGenesisBlock).Hash

\* C5: a specification without a configuration is rejected with
\* errGenesisNoConfig and empty hashes in every database state, and nothing
\* is written.
C5_NoConfigRejected ==
    (IsSetup /\ last.genesis.present /\ last.genesis.Config = NilConfig)
    => /\ ~last.ret.panic
       /\ last.ret.err = "errGenesisNoConfig"
       /\ last.ret.fastHash = ZeroHash
       /\ last.ret.snailHash = ZeroHash
       /\ last.ret.writes = <<>>
       /\ db = last.pre

C5_Witness ==
    /\ IsSetup
    /\ last.genesis.present
    /\ last.genesis.Config = NilConfig
    /\ last.ret.err = "errGenesisNoConfig"
    /\ last.pre.fastCanon # ZeroHash

\* C6: when the snail genesis derived from the specification differs from the
\* snail ledger's stored canonical height-zero hash, SetupGenesisBlock
\* reports a genesis-mismatch error to its caller.
C6_SnailMismatchReported ==
    (/\ IsSetup
     /\ HasConfig(last.genesis)
     /\ last.pre.snailCanon # ZeroHash
     /\ last.pre.snailCanon # ToSnailBlock(last.genesis).Hash
     /\ ~last.ret.panic)
    => last.ret.err = "GenesisMismatchError"

\* C7: the configuration SetupGenesisBlock returns is never nil, on success
\* and on every error path.
C7_ConfigNeverNil == (IsSetup /\ ~last.ret.panic) => last.ret.cfg # NilConfig

C7_Witness ==
    /\ IsSetup
    /\ last.ret.err = "errGenesisNoConfig"
    /\ last.ret.cfg = AllMinervaProtocolChanges

C9_ReplacedOnlyByCompatible ==
    (ReachedCompatCheck /\ PreHeight > 0 /\ PreCompatErr.conflict)
    => /\ last.ret.err = "ConfigCompatError"
       /\ db.fastCfg = last.pre.fastCfg

\* C10: with a non-mainnet fast genesis and a stored configuration,
\* SetupGenesisBlock(nil) returns the stored configuration and writes no
\* chain configuration, whatever the head height.
C10_NonMainnetConfigKept ==
    (/\ IsSetup
     /\ ~last.genesis.present
     /\ last.pre.fastCanon # ZeroHash
     /\ last.pre.fastCanon # MainnetGenesisHash
     /\ PreStoredCfg # NilConfig)
    => /\ ~last.ret.panic
       /\ last.ret.err = "nil"
       /\ last.ret.cfg = PreStoredCfg
       /\ WritesOf(last.ret.writes, "fast.WriteChainConfig") = {}
       /\ db.fastCfg = last.pre.fastCfg

C10_Witness ==
    /\ IsSetup
    /\ ~last.genesis.present
    /\ last.pre.fastCanon # ZeroHash
    /\ last.pre.fastCanon # MainnetGenesisHash
    /\ PreHeight > 0
    /\ last.ret.cfg = PreStoredCfg
    /\ PreStoredCfg.name = "custom"

\* The call finds a fast genesis it accepts, and no configuration stored for it.
FoundGenesisWithoutConfig ==
    /\ IsSetup
    /\ last.pre.fastCanon # ZeroHash
    /\ PreStoredCfg = NilConfig
    /\ \/ ~last.genesis.present
       \/ HasConfig(last.genesis) /\ ToFastBlock(last.genesis).Hash = last.pre.fastCanon

\* C11: when the fast ledger has a canonical height-zero hash but no chain
\* configuration stored for it, and the specification is nil or its fast
\* genesis hash matches, the resolved configuration is written under the
\* stored hash and returned with the stored hash and a nil error, whatever
\* the head height is and whether or not it can be read.
C11_ConfigRecovered ==
    FoundGenesisWithoutConfig
    => /\ ~last.ret.panic
       /\ last.ret.err = "nil"
       /\ last.ret.cfg = PreNewCfg
       /\ last.ret.fastHash = last.pre.fastCanon
       /\ ReadChainConfig(db, last.pre.fastCanon) = PreNewCfg
       /\ \E i \in WritesOf(last.ret.writes, "fast.WriteChainConfig") :
            /\ last.ret.writes[i].hash = last.pre.fastCanon
            /\ last.ret.writes[i].cfg = PreNewCfg

C11_Witness ==
    /\ FoundGenesisWithoutConfig
    /\ ~last.genesis.present
    /\ last.pre.fastCanon # MainnetGenesisHash
    /\ last.pre.fastHeadHeader = ZeroHash
    /\ last.ret.err = "nil"
    /\ ReadChainConfig(db, last.pre.fastCanon) = AllMinervaProtocolChanges

\* The writes that store a block, a canonical hash, a head pointer or a chain
\* configuration.
LedgerWriteOps ==
    {"fast.WriteBlock", "fast.WriteCanonicalHash", "fast.WriteHeadBlockHash",
     "fast.WriteHeadHeaderHash", "fast.WriteChainConfig", "snail.WriteBlock",
     "snail.WriteCanonicalHash", "snail.WriteHeadBlockHash", "snail.WriteHeadHeaderHash"}

IssuesNoLedgerWrite(ws) == \A i \in DOMAIN ws : ws[i].op \notin LedgerWriteOps

\* C12: CommitFast and CommitSnail of a specification whose Number is not
\* zero return an error and write no block, canonical hash, head pointer or
\* chain configuration, and SetupGenesisBlock on an empty database with such
\* a specification returns that error instead of crashing.
C12_NonZeroNumberReturnsError ==
    /\ (last.op \in {"CommitFast", "CommitSnail"} /\ last.genesis.Number # 0)
       => /\ last.ret.err = ErrNonZeroNumber
          /\ IssuesNoLedgerWrite(last.ret.writes)
    /\ (IsSetup /\ HasConfig(last.genesis) /\ last.genesis.Number # 0
           /\ last.pre.fastCanon = ZeroHash /\ last.pre.snailCanon = ZeroHash)
       => /\ ~last.ret.panic
          /\ last.ret.err = ErrNonZeroNumber
          /\ IssuesNoLedgerWrite(last.ret.writes)

(***************************************************************************)
(* Genesis.ToFastBlock and Genesis.ToSnailBlock in full: the replay of the *)
(* allocation map, the committee members, and the specification object the *)
(* derivation leaves behind.                                               *)
(***************************************************************************)
MaxMembers == 2
MaxDerive == 2

Addresses == {"a1", "a2"}

Balances == {1, 2}

\* Genesis.Alloc: a map from addresses to accounts.
DeriveAllocs == UNION {[S -> Balances] : S \in SUBSET Addresses}

Publickeys == {"k1", "k2", "invalid"}

\* crypto.UnmarshalPubkey: nil (with an error) for bytes that are no key.
UnmarshalPubkey(bytes) == IF bytes = "invalid" THEN "nil" ELSE bytes

PubkeyToAddress(pubkey) == <<"address of", pubkey>>

\* What a specification may hold in the three fields ToFastBlock overwrites.
MemberFields ==
    {[Flag |-> "StateUsedFlag", MType |-> "TypeFixed", CommitteeBase |-> PubkeyToAddress("k1")],
     [Flag |-> "StateUnusedFlag", MType |-> "TypeWorked",
      CommitteeBase |-> PubkeyToAddress("k2")],
     [Flag |-> "StateRemovedFlag", MType |-> "TypeFixed",
      CommitteeBase |-> <<"address of", "nobody">>]}

CommitteeMembers ==
    {[Coinbase |-> "a1", Publickey |-> k, Flag |-> f.Flag, MType |-> f.MType,
      CommitteeBase |-> f.CommitteeBase] : k \in Publickeys, f \in MemberFields}

Committees == UNION {[1..n -> CommitteeMembers] : n \in 0..MaxMembers}

\* The specifications genesis blocks are derived from.
DeriveSpecs ==
    {[Alloc |-> a, Committee |-> c, GasLimit |-> gas, Difficulty |-> diff, Number |-> k,
      Nonce |-> DefaultNonce] :
        a \in DeriveAllocs, c \in Committees, gas \in {0, DefaultGasLimit},
        diff \in {NilInt, 1799}, k \in {0, 1}}

\* The orders in which a range over the map g.Alloc may visit its keys.
AllocOrders(alloc) ==
    {o \in [1..Cardinality(DOMAIN alloc) -> DOMAIN alloc] :
        \A i, j \in DOMAIN o : i # j => o[i] # o[j]}

\* state.New(common.Hash{}, state.NewDatabase(db)): the state at the empty
\* root, which has no account whatever the database holds.
StateNew(d) == [a \in {} |-> 0]

\* statedb.AddBalance: the account is created with balance zero if absent.
AddBalance(state, addr, amount) ==
    [a \in DOMAIN state \cup {addr} |->
        IF a = addr THEN (IF addr \in DOMAIN state THEN state[addr] ELSE 0) + amount
        ELSE state[a]]

\* Lines 249-256 for the keys of alloc in the given order.
RECURSIVE ReplayAlloc(_, _, _)
ReplayAlloc(state, alloc, order) ==
    IF order = <<>> THEN state
    ELSE ReplayAlloc(AddBalance(state, Head(order), alloc[Head(order)]), alloc, Tail(order))

\* statedb.IntermediateRoot: the root hash stands for the accounts it commits to.
IntermediateRoot(state) == {<<a, state[a]>> : a \in DOMAIN state}

\* Lines 276-281 without the assignment of MType.
RECURSIVE NormalizeCommittee_keepsMType(_)
NormalizeCommittee_keepsMType(members) ==
    IF members = <<>> THEN [panic |-> FALSE, members |-> <<>>]
    ELSE LET member == Head(members)
             pubkey == UnmarshalPubkey(member.Publickey)
             rest == NormalizeCommittee_keepsMType(Tail(members))
         IN IF pubkey = "nil" THEN [panic |-> TRUE, members |-> members]
            ELSE [panic |-> rest.panic,
                  members |-> <<[member EXCEPT !.Flag = "StateUsedFlag",
                                               !.CommitteeBase = PubkeyToAddress(pubkey)]>>
                              \o rest.members]

\* Lines 276-281: the members are changed in place; dereferencing the nil key
\* of line 277 at line 280 stops the program.
RECURSIVE NormalizeCommittee(_)
NormalizeCommittee(members) ==
    IF members = <<>> THEN [panic |-> FALSE, members |-> <<>>]
    ELSE LET member == Head(members)
             pubkey == UnmarshalPubkey(member.Publickey)
             rest == NormalizeCommittee(Tail(members))
         IN IF pubkey = "nil" THEN [panic |-> TRUE, members |-> members]
            ELSE [panic |-> rest.panic,
                  members |-> <<[member EXCEPT !.Flag = "StateUsedFlag",
                                               !.MType = "TypeFixed",
                                               !.CommitteeBase = PubkeyToAddress(pubkey)]>>
                              \o rest.members]

\* Lines 244-283: the block, and the specification object after the call.
DeriveFastBlock(g, d, order) ==
    LET root == IntermediateRoot(ReplayAlloc(StateNew(d), g.Alloc, order))
        head == [Number |-> g.Number, Root |-> root,
                 GasLimit |-> IF g.GasLimit = 0 THEN GenesisGasLimit ELSE g.GasLimit]
        committee == NormalizeCommittee(g.Committee)
    IN [panic |-> committee.panic,
        g |-> [g EXCEPT !.Committee = committee.members],
        block |-> [Header |-> head, Members |-> committee.members,
                   Hash |-> <<head, committee.members>>]]

\* Lines 340-375 with the fruit taking the genesis difficulty as it is.
DeriveSnailBlock_unscaledFruit(g, d, order) ==
    LET diff == IF g.Difficulty = NilInt THEN GenesisDifficulty ELSE g.Difficulty
        f == DeriveFastBlock([g EXCEPT !.Difficulty = diff], d, order)
        head == [Number |-> g.Number, Nonce |-> g.Nonce, Difficulty |-> diff]
        fruitHead == [Number |-> g.Number, Nonce |-> g.Nonce,
                      FastNumber |-> f.block.Header.Number, FastHash |-> f.block.Hash,
                      FruitDifficulty |-> f.g.Difficulty]
        fruit == [Header |-> fruitHead, Fruits |-> <<>>, Signs |-> <<>>]
    IN [panic |-> f.panic, g |-> f.g,
        block |-> [Header |-> head, Fruits |-> <<fruit>>, Signs |-> <<>>,
                   Hash |-> <<head, <<fruitHead>> >>]]

\* Lines 340-375 with the header keeping the difficulty the specification
\* came with.
DeriveSnailBlock_noHeaderDefault(g, d, order) ==
    LET diff == IF g.Difficulty = NilInt THEN GenesisDifficulty ELSE g.Difficulty
        f == DeriveFastBlock([g EXCEPT !.Difficulty = diff], d, order)
        head == [Number |-> g.Number, Nonce |-> g.Nonce, Difficulty |-> g.Difficulty]
        fruitHead == [Number |-> g.Number, Nonce |-> g.Nonce,
                      FastNumber |-> f.block.Header.Number, FastHash |-> f.block.Hash,
                      FruitDifficulty |-> f.g.Difficulty \div FruitBlockRatio]
        fruit == [Header |-> fruitHead, Fruits |-> <<>>, Signs |-> <<>>]
    IN [panic |-> f.panic, g |-> f.g,
        block |-> [Header |-> head, Fruits |-> <<fruit>>, Signs |-> <<>>,
                   Hash |-> <<head, <<fruitHead>> >>]]

\* Lines 340-375: the block, and the specification object after the call
\* (line 358 stores the defaulted difficulty in it).
DeriveSnailBlock(g, d, order) ==
    LET diff == IF g.Difficulty = NilInt THEN GenesisDifficulty ELSE g.Difficulty
        f == DeriveFastBlock([g EXCEPT !.Difficulty = diff], d, order)
        head == [Number |-> g.Number, Nonce |-> g.Nonce, Difficulty |-> diff]
        fruitHead == [Number |-> g.Number, Nonce |-> g.Nonce,
                      FastNumber |-> f.block.Header.Number, FastHash |-> f.block.Hash,
                      FruitDifficulty |-> f.g.Difficulty \div FruitBlockRatio]
        fruit == [Header |-> fruitHead, Fruits |-> <<>>, Signs |-> <<>>]
    IN [panic |-> f.panic, g |-> f.g,
        block |-> [Header |-> head, Fruits |-> <<fruit>>, Signs |-> <<>>,
                   Hash |-> <<head, <<fruitHead>> >>]]

\* The databases a derivation is given: none (nil), an empty one, one that
\* holds the default genesis.
DeriveDBs == {EmptyDB, AfterFirstNilCall}

DeriveInit ==
    /\ db = EmptyDB
    /\ last = NoCall
    /\ fc = FastGenesisChain
    /\ sc = SnailGenesisChain
    /\ vres = Verdict("none", <<>>)
    /\ running = NoCalls
    /\ body = NoBody
    /\ \E g \in DeriveSpecs : dv = [NoDerivation EXCEPT !.g = g, !.from = g]

\* g.ToFastBlock(db) on the specification object as earlier calls left it.
CallToFastBlock ==
    /\ ~dv.panic
    /\ dv.n < MaxDerive
    /\ \E d \in DeriveDBs, order \in AllocOrders(dv.g.Alloc) :
        LET r == DeriveFastBlock(dv.g, d, order)
        IN dv' = [g |-> r.g, n |-> dv.n + 1, panic |-> r.panic,
                  fast |-> IF r.panic THEN dv.fast ELSE dv.fast \cup {r.block.Hash},
                  snail |-> dv.snail, kind |-> "fast", from |-> dv.g, block |-> r.block]
    /\ UNCHANGED <<db, last, fc, sc, vres, running, body>>

\* g.ToSnailBlock(db) on the specification object as earlier calls left it.
CallToSnailBlock ==
    /\ ~dv.panic
    /\ dv.n < MaxDerive
    /\ \E d \in DeriveDBs, order \in AllocOrders(dv.g.Alloc) :
        LET r == DeriveSnailBlock(dv.g, d, order)
        IN dv' = [g |-> r.g, n |-> dv.n + 1, panic |-> r.panic,
                  fast |-> dv.fast,
                  snail |-> IF r.panic THEN dv.snail ELSE dv.snail \cup {r.block.Hash},
                  kind |-> "snail", from |-> dv.g, block |-> r.block]
    /\ UNCHANGED <<db, last, fc, sc, vres, running, body>>

DeriveNext == CallToFastBlock \/ CallToSnailBlock

SpecDerive == DeriveInit /\ [][DeriveNext]_vars

\* C13: all fast genesis blocks derived from one specification object have
\* the same hash, and so have all snail genesis blocks, whatever database is
\* passed, whatever was derived from the object before, and in whatever
\* order the allocation map is replayed.
C13_DerivationDeterministic == Cardinality(dv.fast) <= 1 /\ Cardinality(dv.snail) <= 1

C13_Witness ==
    /\ dv.n >= 2
    /\ dv.kind = "snail"
    /\ dv.from.Difficulty = GenesisDifficulty
    /\ Cardinality(dv.snail) = 1
    /\ Cardinality(DOMAIN dv.g.Alloc) = 2
    /\ dv.g.Committee # <<>>

\* A fast genesis block was built by the last call.
BuiltFastBlock == dv.kind = "fast" /\ ~dv.panic

\* C14: the fast genesis block built by ToFastBlock carries every committee
\* member of the specification, in order, with CommitteeBase the address
\* derived from the member's public key, Flag the used value and MType
\* fixed, whatever the specification held in those three fields.
C14_MembersNormalized ==
    BuiltFastBlock
    => /\ Len(dv.block.Members) = Len(dv.from.Committee)
       /\ \A i \in DOMAIN dv.from.Committee :
            LET given == dv.from.Committee[i]
                member == dv.block.Members[i]
            IN /\ member.Publickey = given.Publickey
               /\ member.Coinbase = given.Coinbase
               /\ member.CommitteeBase = PubkeyToAddress(UnmarshalPubkey(given.Publickey))
               /\ member.Flag = "StateUsedFlag"
               /\ member.MType = "TypeFixed"

C14_Witness ==
    /\ BuiltFastBlock
    /\ Len(dv.from.Committee) = 2
    /\ dv.from.Committee[1].Flag = "StateUnusedFlag"
    /\ dv.from.Committee[1].MType = "TypeWorked"
    /\ dv.from.Committee[1].CommitteeBase # PubkeyToAddress(dv.from.Committee[1].Publickey)
    /\ dv.from.Committee[2].Flag = "StateRemovedFlag"
    /\ dv.block.Members[1].MType = "TypeFixed"
    /\ dv.block.Members[2].Flag = "StateUsedFlag"

\* A snail genesis block was built by the last call.
BuiltSnailBlock == dv.kind = "snail" /\ ~dv.panic

\* The fast genesis block derived from the specification of the last call.
FastBlockOfSpec ==
    DeriveFastBlock(dv.from, EmptyDB, CHOOSE o \in AllocOrders(dv.from.Alloc) : TRUE).block

\* C15: the snail genesis block derived from a specification holds exactly
\* one fruit; the fruit anchors the number and the hash of the fast genesis
\* block derived from the same specification, carries no signatures, and its
\* fruit difficulty is the defaulted genesis difficulty divided by the fruit
\* ratio.
C15_SingleGenesisFruit ==
    BuiltSnailBlock
    => /\ Len(dv.block.Fruits) = 1
       /\ dv.block.Fruits[1].Header.FastNumber = FastBlockOfSpec.Header.Number
       /\ dv.block.Fruits[1].Header.FastHash = FastBlockOfSpec.Hash
       /\ dv.block.Fruits[1].Signs = <<>>
       /\ dv.block.Fruits[1].Header.FruitDifficulty =
            (IF dv.from.Difficulty = NilInt THEN GenesisDifficulty ELSE dv.from.Difficulty)
                \div FruitBlockRatio

C15_Witness ==
    /\ BuiltSnailBlock
    /\ dv.from.Difficulty = NilInt
    /\ dv.from.Number = 1
    /\ dv.from.Committee # <<>>
    /\ dv.block.Fruits[1].Header.FastNumber = 1
    /\ dv.block.Fruits[1].Header.FruitDifficulty = GenesisDifficulty \div FruitBlockRatio

\* The two sub-protocols of the last call, as SetupGenesisBlock ran them.
FastPart == setupFastGenesisBlock(last.pre, last.genesis)

SnailPart == setupSnailGenesisBlock(ApplyWrites(last.pre, FastPart.writes), last.genesis)

UsedGenesis == IF last.genesis.present THEN last.genesis ELSE DefaultGenesisBlock

ReturnedSetup == IsSetup /\ ~last.ret.panic /\ (last.genesis.present => HasConfig(last.genesis))

\* C16: the snail sub-protocol runs whatever the fast sub-protocol returned,
\* so a failed fast sub-protocol still leaves a snail genesis committed to a
\* snail ledger that was empty; and a failed snail sub-protocol leaves in
\* place the fast genesis the same call committed.
C16_SubProtocolsIndependent ==
    ReturnedSetup
    => /\ (FastPart.err # "nil" /\ last.pre.snailCanon = ZeroHash)
          => /\ db.snailCanon = ToSnailBlock(UsedGenesis).Hash
             /\ db.snailHeadBlock = db.snailCanon
             /\ db.snailCanon \in db.snailBlocks
             /\ last.ret.snailHash = db.snailCanon
       /\ (SnailPart.err # "nil" /\ last.pre.fastCanon = ZeroHash)
          => /\ db.fastCanon = ToFastBlock(UsedGenesis).Hash
             /\ db.fastHeadBlock = db.fastCanon
             /\ db.fastCanon \in db.fastBlocks
             /\ ReadChainConfig(db, db.fastCanon) = UsedGenesis.Config
             /\ last.ret.err = "nil"

C16_Witness ==
    /\ ReturnedSetup
    /\ FastPart.err = "GenesisMismatchError"
    /\ last.pre.snailCanon = ZeroHash
    /\ db.snailCanon = ToSnailBlock(last.genesis).Hash

C16_SnailFailureReached ==
    /\ ReturnedSetup
    /\ SnailPart.err = "GenesisMismatchError"
    /\ last.pre.fastCanon = ZeroHash
    /\ db.fastCanon = ToFastBlock(last.genesis).Hash

\* C18: in every database state, those between the writes of CommitFast and
\* CommitSnail included, a ledger's canonical height-zero hash is set only
\* if its genesis block, its head-block pointer and its head-header pointer
\* (and the chain configuration, for the fast ledger) are set too.
C18_CommitAtomic ==
    /\ db.fastCanon # ZeroHash
       => /\ db.fastCanon \in db.fastBlocks
          /\ db.fastHeadBlock # ZeroHash
          /\ db.fastHeadHeader # ZeroHash
          /\ ReadChainConfig(db, db.fastCanon) # NilConfig
    /\ db.snailCanon # ZeroHash
       => /\ db.snailCanon \in db.snailBlocks
          /\ db.snailHeadBlock # ZeroHash
          /\ db.snailHeadHeader # ZeroHash

(***************************************************************************)
(* Two SetupGenesisBlock calls running concurrently on one database.  A    *)
(* step of a call is one sub-protocol's reading of the database and        *)
(* deciding (lines 166-217 up to the first write, or 309-335), or one      *)
(* write of CommitFast, CommitSnail or WriteChainConfig.                   *)
(***************************************************************************)
CallIds == {1, 2}

\* The specifications of the concurrent calls.
RaceSpecs ==
    {NilGenesis} \cup {g \in ProductionSpecs : g.Config = AllMinervaProtocolChanges}

StartedCall(genesis) ==
    [genesis |-> genesis, pc |-> "fast.decide", pending |-> <<>>, panic |-> FALSE,
     fastHash |-> ZeroHash, fastErr |-> "nil", fastCommits |-> FALSE,
     snailHash |-> ZeroHash, snailErr |-> "nil", snailCommits |-> FALSE]

RaceInit ==
    /\ db = EmptyDB
    /\ last = NoCall
    /\ fc = FastGenesisChain
    /\ sc = SnailGenesisChain
    /\ vres = Verdict("none", <<>>)
    /\ dv = NoDerivation
    /\ body = NoBody
    /\ \E g1 \in RaceSpecs, g2 \in RaceSpecs :
        /\ g1 # g2
        /\ running = [id \in CallIds |-> StartedCall(IF id = 1 THEN g1 ELSE g2)]

\* Lines 141-143 and 166-217 up to the first write: the call reads the fast
\* ledger and decides what to write.
FastDecide(id) ==
    LET call == running[id]
        r == setupFastGenesisBlock(db, call.genesis)
    IN /\ call.pc = "fast.decide"
       /\ running' = [running EXCEPT ![id] =
            IF call.genesis.present /\ call.genesis.Config = NilConfig
            THEN [call EXCEPT !.pc = "done", !.fastErr = "errGenesisNoConfig"]
            ELSE [call EXCEPT !.pc = "fast.write", !.pending = r.writes, !.panic = r.panic,
                              !.fastHash = r.hash, !.fastErr = r.err,
                              !.fastCommits = (db.fastCanon = ZeroHash)]]
       /\ UNCHANGED <<db, last, fc, sc, vres, dv, body>>

\* One write of the fast sub-protocol reaches the database; after the last
\* one the fast sub-protocol returns (or panics at line 180).
FastWrite(id) ==
    LET call == running[id]
    IN /\ call.pc = "fast.write"
       /\ IF call.pending = <<>>
          THEN /\ running' = [running EXCEPT ![id].pc =
                                IF call.panic THEN "panic" ELSE "snail.decide"]
               /\ db' = db
          ELSE /\ running' = [running EXCEPT ![id].pending = Tail(call.pending)]
               /\ db' = ApplyWrite(db, Head(call.pending))
       /\ UNCHANGED <<last, fc, sc, vres, dv, body>>

\* Lines 309-335 up to the first write.
SnailDecide(id) ==
    LET call == running[id]
        r == setupSnailGenesisBlock(db, call.genesis)
    IN /\ call.pc = "snail.decide"
       /\ running' = [running EXCEPT ![id] =
            [call EXCEPT !.pc = "snail.write", !.pending = r.writes, !.panic = r.panic,
                         !.snailHash = r.hash, !.snailErr = r.err,
                         !.snailCommits = (db.snailCanon = ZeroHash)]]
       /\ UNCHANGED <<db, last, fc, sc, vres, dv, body>>

\* One write of the snail sub-protocol reaches the database; after the last
\* one SetupGenesisBlock returns.
SnailWrite(id) ==
    LET call == running[id]
    IN /\ call.pc = "snail.write"
       /\ IF call.pending = <<>>
          THEN /\ running' = [running EXCEPT ![id].pc =
                                IF call.panic THEN "panic" ELSE "done"]
               /\ db' = db
          ELSE /\ running' = [running EXCEPT ![id].pending = Tail(call.pending)]
               /\ db' = ApplyWrite(db, Head(call.pending))
       /\ UNCHANGED <<last, fc, sc, vres, dv, body>>

RaceNext ==
    \E id \in CallIds : FastDecide(id) \/ FastWrite(id) \/ SnailDecide(id) \/ SnailWrite(id)

SpecRace == RaceInit /\ [][RaceNext]_vars

BothReturnedNil ==
    \A id \in CallIds : running[id].pc = "done" /\ running[id].fastErr = "nil"

\* C17: for every interleaving of two SetupGenesisBlock calls with different
\* specifications on the same empty database, at most one call commits a
\* genesis block per ledger, and the two calls never both return a nil error
\* with different genesis hashes for the same ledger.
C17_OneCommitPerLedger ==
    /\ running # NoCalls
    => /\ ~(running[1].fastCommits /\ running[2].fastCommits)
       /\ ~(running[1].snailCommits /\ running[2].snailCommits)
       /\ BothReturnedNil
          => /\ running[1].fastHash = running[2].fastHash
             /\ running[1].snailHash = running[2].snailHash

(***************************************************************************)
(* ValidateBody on candidates as they arrive, under several settings of    *)
(* the fruit-count bounds.  The candidate stays in body until its verdict  *)
(* has been looked at.                                                     *)
(***************************************************************************)
MaxSnail == 2

LimitChoices ==
    {FruitLimits,
     [MinimumFruits |-> 0, MaximumFruits |-> MaximumFruits],
     [MinimumFruits |-> 1, MaximumFruits |-> MaximumFruits - 1]}

BodyDefects == {"none", "orphan"}

BodyInit ==
    /\ db = EmptyDB
    /\ last = NoCall
    /\ \E a \in FastSteps : fc = [Time |-> FastTimes(a, a)]
    /\ sc = SnailGenesisChain
    /\ vres = Verdict("none", <<>>)
    /\ dv = NoDerivation
    /\ running = NoCalls
    /\ \E lim \in LimitChoices : body = [limits |-> lim, block |-> NilBlock]

\* A candidate for some height up to head + 1 arrives.
ReceiveBody ==
    /\ body.block = NilBlock
    /\ \E number \in 0..Len(sc.canon), nums \in CandidateNumbers, defect \in BodyDefects :
        body' = [body EXCEPT !.block = CandidateBlock(fc, sc, number, nums, defect)]
    /\ UNCHANGED <<db, last, fc, sc, vres, dv, running>>

\* ValidateBody on the candidate; one accepted for height head + 1 becomes
\* the canonical head.
ValidateReceived ==
    /\ body.block # NilBlock
    /\ vres.err = "none"
    /\ LET r == ValidateBodyUnder(body.limits, fc, sc, body.block)
       IN /\ vres' = Verdict(r.err, <<>>)
          /\ sc' = IF r.err = "nil" /\ body.block.Number = Len(sc.canon)
                      /\ Len(sc.canon) <= MaxSnail
                   THEN [canon |-> Append(sc.canon, HashOf(body.block)),
                         blocks |-> sc.blocks \cup {body.block}]
                   ELSE sc
    /\ UNCHANGED <<db, last, fc, dv, running, body>>

\* The verdict has been looked at.
ForgetBody ==
    /\ body.block # NilBlock
    /\ vres.err # "none"
    /\ body' = [body EXCEPT !.block = NilBlock]
    /\ vres' = Verdict("none", <<>>)
    /\ UNCHANGED <<db, last, fc, sc, dv, running>>

BodyNext == ReceiveBody \/ ValidateReceived \/ ForgetBody

SpecBody == BodyInit /\ [][BodyNext]_vars

\* The candidate in body has its verdict in vres.
Validated == body.block # NilBlock /\ vres.err # "none"

\* The candidate was not known when validated, and its parent is canonical.
Linkable ==
    /\ IsCanonicalBlock(sc, body.block.ParentHash, body.block.Number - 1)
    /\ IsCanonicalBlock(sc, HashOf(body.block), body.block.Number) => vres.err = "nil"

FruitCount == Len(body.block.Fruits)

CountInRange ==
    /\ FruitCount >= 1
    /\ FruitCount >= body.limits.MinimumFruits
    /\ FruitCount <= body.limits.MaximumFruits

\* C19: every linkable candidate whose fruit count is outside
\* [MinimumFruits, MaximumFruits] is rejected with ErrNoFruits, a count at
\* either bound is not, and a candidate with no fruit is rejected with
\* ErrNoFruits under every minimum, a minimum of 0 included.
C19_FruitCountBound ==
    (Validated /\ Linkable) => (vres.err = "ErrNoFruits" <=> ~CountInRange)

C19_Witness ==
    /\ Validated
    /\ Linkable
    /\ body.limits.MinimumFruits = 0
    /\ FruitCount = 0
    /\ vres.err = "ErrNoFruits"

C19_AcceptedAtBounds ==
    /\ Validated
    /\ Linkable
    /\ FruitCount \in {body.limits.MinimumFruits, body.limits.MaximumFruits}
    /\ vres.err = "nil"

\* The last fast-block number anchored by the candidate's parent (0 for a
\* parent at height 0).
ParentLastAnchor ==
    LET parent == GetBlock(sc, body.block.ParentHash, body.block.Number - 1)
    IN IF parent.Number > 0 THEN parent.Fruits[Len(parent.Fruits)].FastNumber ELSE 0

Anchors == [i \in 1..FruitCount |-> body.block.Fruits[i].FastNumber]

\* The candidate passed every check made before the loop of lines 142-155:
\* it is linkable, its count is in range, its first and last fruit anchor
\* fast blocks the fast chain has, at least MinTimeGap apart, and its time is
\* not before its last fruit's.
ReachedFruitLoop ==
    /\ Validated
    /\ Linkable
    /\ CountInRange
    /\ Anchors[1] \in 0..CurrentHeaderNumber(fc)
    /\ Anchors[FruitCount] \in 0..CurrentHeaderNumber(fc)
    /\ fc.Time[Anchors[FruitCount] + 1] - fc.Time[Anchors[1] + 1] >= MinTimeGap
    /\ body.block.Time >= body.block.Fruits[FruitCount].Time

\* Every fruit, in order, anchors the number after the one before it,
\* starting after the parent's last anchor.
Contiguous == \A i \in 1..FruitCount : Anchors[i] = ParentLastAnchor + i

\* C20: a candidate that reaches the contiguity check passes it exactly when
\* every fruit, in order, anchors temp + 1, temp starting at the parent's
\* last anchored number and advancing with each fruit; a gap, a repeat or an
\* overlap with the parent fails with ErrInvalidFruits, also when the
\* subtraction wraps around because the fruit's number is below temp.
C20_ContiguityCheck ==
    ReachedFruitLoop
    => /\ vres.err = "ErrInvalidFruits" <=> ~Contiguous
       /\ Contiguous => vres.err = "nil"

C20_Witness ==
    /\ ReachedFruitLoop
    /\ ParentLastAnchor >= 2
    /\ FruitCount = 3
    /\ Contiguous
    /\ vres.err = "nil"

C20_GapRejected ==
    /\ ReachedFruitLoop
    /\ ParentLastAnchor >= 2
    /\ Anchors[1] = ParentLastAnchor + 1
    /\ Anchors[2] = ParentLastAnchor + 3
    /\ vres.err = "ErrInvalidFruits"

C20_OverlapRejected ==
    /\ ReachedFruitLoop
    /\ ParentLastAnchor >= 2
    /\ Anchors[1] < ParentLastAnchor
    /\ vres.err = "ErrInvalidFruits"

(***************************************************************************)
(* ValidateBody on candidates that may be wrong in one more way than the   *)
(* numbers their fruits anchor: the header, the parent, the times, or one  *)
(* fruit.  The verdict keeps the engine calls made; an accepted candidate  *)
(* may become the canonical head, or be stored beside the canonical block  *)
(* of its height.                                                          *)
(***************************************************************************)
MaxSide == 1

\* The fast chain has time steps 1 and 2 in either order.
VerdictInit ==
    /\ db = EmptyDB
    /\ last = NoCall
    /\ \E a \in FastSteps, b \in FastSteps : a # b /\ fc = [Time |-> FastTimes(a, b)]
    /\ sc = SnailGenesisChain
    /\ vres = Verdict("none", <<>>)
    /\ dv = NoDerivation
    /\ running = NoCalls
    /\ body = NoBody

HeaderDefects == {"none", "orphan", "sideParent", "knownHeader", "early", "noTime", "late",
                  "fruitsHash"}

FruitDefects == {"unknownFast", "fruitEarly", "fruitNoTime", "signHash",
                 "freshness", "snailHeader", "signs"}

\* The errors of the consensus engine (package consensus and its engine).
EngineError(op) == "engine: " \o op

CandidateDefects ==
    {[kind |-> k, pos |-> 0] : k \in HeaderDefects}
        \cup {[kind |-> k, pos |-> p] : k \in FruitDefects, p \in 1..2}

\* The anchored numbers of a defective candidate: any start, then the next
\* number or a gap at each step.
RECURSIVE NumberSteps(_)
NumberSteps(len) ==
    IF len = 0 THEN {<<>>}
    ELSE IF len = 1 THEN {<<k>> : k \in 0..(MaxFast + 1)}
    ELSE {Append(r, r[Len(r)] + d) : r \in NumberSteps(len - 1), d \in {1, 2}}

DefectiveNumbers == UNION {NumberSteps(len) : len \in 0..(MaximumFruits + 1)}

DefectiveFruit(f, k, kind) ==
    LET h == HonestFruit(f, k)
    IN CASE kind = "unknownFast" -> [h EXCEPT !.FastHash = UnknownFastHash(k)]
         [] kind = "fruitEarly" -> [h EXCEPT !.Time = h.Time - 1]
         [] kind = "fruitNoTime" -> [h EXCEPT !.Time = NilInt]
         [] kind = "signHash" -> [h EXCEPT !.SignHash = CalcSignHash(<<>>)]
         [] kind = "freshness" -> [h EXCEPT !.Freshness = EngineError("VerifyFreshness")]
         [] kind = "snailHeader" -> [h EXCEPT !.SnailHeader = EngineError("VerifySnailHeader")]
         [] kind = "signs" -> [h EXCEPT !.VerifySigns = EngineError("VerifySigns")]
         [] OTHER -> h

\* The stored blocks at a height that are not the canonical one.
SideBlocks(s, number) ==
    {b \in s.blocks : b.Number = number /\ ~IsCanonicalBlock(s, HashOf(b), number)}

DefectiveBlock(f, s, number, nums, defect) ==
    LET fruits == [i \in 1..Len(nums) |->
                      IF i = defect.pos THEN DefectiveFruit(f, nums[i], defect.kind)
                      ELSE HonestFruit(f, nums[i])]
        last_time == IF nums = <<>> THEN 0 ELSE HonestFruit(f, nums[Len(nums)]).Time
        kind == defect.kind
        parent == IF kind = "orphan" THEN UnknownSnailHash
                  ELSE IF number = 0
                  THEN (IF kind = "sideParent" THEN s.canon[1] ELSE UnknownSnailHash)
                  ELSE IF kind = "sideParent" /\ SideBlocks(s, number - 1) # {}
                  THEN HashOf(CHOOSE b \in SideBlocks(s, number - 1) : TRUE)
                  ELSE s.canon[number]
        honest == [Number |-> number,
                   ParentHash |-> parent,
                   Time |-> CASE kind = "early" -> last_time - 1
                              [] kind = "noTime" -> NilInt
                              [] kind = "late" -> last_time + 1
                              [] OTHER -> last_time,
                   FruitsHash |-> IF kind = "fruitsHash" THEN DeriveSha(<<>>)
                                  ELSE DeriveSha(fruits),
                   Fruits |-> fruits]
        known == GetBlock(s, s.canon[number + 1], number)
    IN IF kind = "knownHeader" /\ number < Len(s.canon)
       THEN [known EXCEPT !.Fruits = fruits]
       ELSE honest

\* A candidate for the head's height or the next one arrives.
ReceiveCandidate ==
    /\ body.block = NilBlock
    /\ \E number \in {Len(sc.canon) - 1, Len(sc.canon)}, nums \in DefectiveNumbers,
          defect \in CandidateDefects :
        body' = [body EXCEPT !.block = DefectiveBlock(fc, sc, number, nums, defect)]
    /\ UNCHANGED <<db, last, fc, sc, vres, dv, running>>

\* ValidateBody on the candidate.
ValidateCandidate ==
    /\ body.block # NilBlock
    /\ vres.err = "none"
    /\ vres' = ValidateBody(fc, sc, body.block)
    /\ UNCHANGED <<db, last, fc, sc, dv, running, body>>

\* An accepted candidate stamped with the time of its last fruit is stored:
\* one for the next height becomes the canonical head, one for the head's
\* height stays beside the canonical block.
InsertCandidate ==
    /\ body.block # NilBlock
    /\ vres.err = "nil"
    /\ body.block.Time = body.block.Fruits[Len(body.block.Fruits)].Time
    /\ \/ /\ body.block.Number = Len(sc.canon)
          /\ Len(sc.canon) < MaxSnail
          /\ sc' = [canon |-> Append(sc.canon, HashOf(body.block)),
                    blocks |-> sc.blocks \cup {body.block}]
       \/ /\ body.block.Number < Len(sc.canon)
          /\ Cardinality(sc.blocks) < Len(sc.canon) + MaxSide
          /\ sc' = [sc EXCEPT !.blocks = sc.blocks \cup {body.block}]
    /\ body' = [body EXCEPT !.block = NilBlock]
    /\ vres' = Verdict("none", <<>>)
    /\ UNCHANGED <<db, last, fc, dv, running>>

\* The candidate is dropped.
DropCandidate ==
    /\ body.block # NilBlock
    /\ vres.err # "none"
    /\ body' = [body EXCEPT !.block = NilBlock]
    /\ vres' = Verdict("none", <<>>)
    /\ UNCHANGED <<db, last, fc, sc, dv, running>>

VerdictNext == ReceiveCandidate \/ ValidateCandidate \/ InsertCandidate \/ DropCandidate

SpecVerdict == VerdictInit /\ [][VerdictNext]_vars

\* The candidate in body is the canonical block of its height; its parent is
\* canonical; a block with its parent hash is stored at the height below.
Known == IsCanonicalBlock(sc, HashOf(body.block), body.block.Number)

ParentCanonical == IsCanonicalBlock(sc, body.block.ParentHash, body.block.Number - 1)

ParentStored == HasBlock(sc, body.block.ParentHash, body.block.Number - 1)

\* The errors that are fatal to a candidate: count, sequence, fruits root.
ConsistencyErrors == {"ErrNoFruits", "ErrInvalidFruits", "fruits hash mismatch"}

\* C21: a candidate that is not canonical itself and whose parent hash is not
\* canonical at the height below is rejected with ErrPrunedAncestor when a
\* block with that hash and height is stored, and with ErrUnknownAncestor when
\* none is; neither is a consistency error.
C21_AncestorErrors ==
    (Validated /\ ~Known /\ ~ParentCanonical)
    => /\ vres.err = IF ParentStored THEN "ErrPrunedAncestor" ELSE "ErrUnknownAncestor"
       /\ vres.err \notin ConsistencyErrors

C21_Witness ==
    /\ Validated
    /\ ~Known
    /\ ~ParentCanonical
    /\ ParentStored
    /\ vres.err = "ErrPrunedAncestor"

C21_UnknownReached ==
    /\ Validated
    /\ ~Known
    /\ ~ParentStored
    /\ body.block.Number > 0
    /\ vres.err = "ErrUnknownAncestor"

\* C22: a candidate whose hash is canonical at its height is rejected with
\* ErrKnownBlock, whatever its parent, fruits and times, and no engine
\* operation is called for it.
C22_KnownBlockFirst ==
    (Validated /\ Known) => (vres.err = "ErrKnownBlock" /\ vres.calls = <<>>)

\* A known header at a height above 0 with fruits that are not those of its
\* fruits root.
C22_Witness ==
    /\ Validated
    /\ Known
    /\ body.block.Number > 0
    /\ DeriveSha(body.block.Fruits) # body.block.FruitsHash
    /\ vres.err = "ErrKnownBlock"

C22_KnownGenesis ==
    /\ Validated
    /\ Known
    /\ body.block.Number = 0
    /\ ~ParentStored
    /\ vres.err = "ErrKnownBlock"

\* The candidate passed the checks of lines 95-114: it is not known, its
\* parent is canonical and its fruit count is in range.
ReachedRangeCheck == Validated /\ ~Known /\ ParentCanonical /\ CountInRange

FirstFruit == body.block.Fruits[1]

LastFruit == body.block.Fruits[FruitCount]

\* The fast headers the first and the last fruit anchor, by hash and number.
FirstHeader == GetHeader(fc, FirstFruit.FastHash, FirstFruit.FastNumber)

LastHeader == GetHeader(fc, LastFruit.FastHash, LastFruit.FastNumber)

\* C23: when the fast chain has no header for the (hash, number) pair anchored
\* by the first fruit, or none for the pair anchored by the last fruit, a
\* candidate that reached this check is rejected with ErrFutureBlock.
C23_RangeResolution ==
    (ReachedRangeCheck /\ (FirstHeader = NilHeader \/ LastHeader = NilHeader))
    => vres.err = "ErrFutureBlock"

\* The first fruit names a number the fast chain has with a hash it has not.
C23_Witness ==
    /\ ReachedRangeCheck
    /\ FirstFruit.FastNumber \in 0..CurrentHeaderNumber(fc)
    /\ FirstHeader = NilHeader
    /\ LastHeader # NilHeader
    /\ vres.err = "ErrFutureBlock"

C23_LastBeyondHead ==
    /\ ReachedRangeCheck
    /\ FirstHeader # NilHeader
    /\ LastFruit.FastNumber > CurrentHeaderNumber(fc)
    /\ vres.err = "ErrFutureBlock"

\* The candidate passed the checks of lines 95-131: both ends of its
\* anchored range resolve in the fast chain.
ReachedTimeCheck == ReachedRangeCheck /\ FirstHeader # NilHeader /\ LastHeader # NilHeader

\* The candidate's time or its last fruit's is missing, or the candidate is
\* stamped before its last fruit.
BlockTimeBad ==
    \/ LastFruit.Time = NilInt
    \/ body.block.Time = NilInt
    \/ body.block.Time < LastFruit.Time

\* C24: a candidate that reached the block-time check is rejected with
\* ErrBlockTime exactly when its time is below its last fruit's or one of the
\* two times is missing; a time equal to the last fruit's, or above it, is not
\* rejected with ErrBlockTime.
C24_BlockTime == ReachedTimeCheck => (vres.err = "ErrBlockTime" <=> BlockTimeBad)

C24_Witness ==
    /\ ReachedTimeCheck
    /\ body.block.Time # NilInt
    /\ LastFruit.Time # NilInt
    /\ body.block.Time < LastFruit.Time
    /\ vres.err = "ErrBlockTime"

C24_EqualPasses ==
    /\ ReachedTimeCheck
    /\ body.block.Time # NilInt
    /\ body.block.Time = LastFruit.Time
    /\ vres.err = "nil"

C24_LaterPasses ==
    /\ ReachedTimeCheck
    /\ LastFruit.Time # NilInt
    /\ body.block.Time > LastFruit.Time
    /\ vres.err = "nil"

C24_MissingTime ==
    /\ ReachedTimeCheck
    /\ body.block.Time # NilInt
    /\ LastFruit.Time = NilInt
    /\ vres.err = "ErrBlockTime"

\* The candidate passed the checks of lines 95-135.
ReachedGapCheck == ReachedTimeCheck /\ ~BlockTimeBad

\* The time of the fast header anchored by the last fruit minus that of the
\* fast header anchored by the first.
AnchoredGap == LastHeader.Time - FirstHeader.Time

\* C25: a candidate that reached the gap check is rejected with ErrGapFruits
\* exactly when the time of the fast header its last fruit anchors minus the
\* time of the fast header its first fruit anchors is below MinTimeGap; a
\* difference equal to MinTimeGap, or above it, passes.
C25_MinimumGap == ReachedGapCheck => (vres.err = "ErrGapFruits" <=> AnchoredGap < MinTimeGap)

C25_Witness ==
    /\ ReachedGapCheck
    /\ AnchoredGap = MinTimeGap - 1
    /\ vres.err = "ErrGapFruits"

C25_ExactGapPasses ==
    /\ ReachedGapCheck
    /\ AnchoredGap = MinTimeGap
    /\ vres.err = "nil"

C25_WiderGapPasses ==
    /\ ReachedGapCheck
    /\ AnchoredGap > MinTimeGap
    /\ vres.err = "nil"

\* Every fruit of the candidate passes ValidateFruit.
FruitsValid == \A i \in 1..FruitCount : ValidateFruit(fc, body.block.Fruits[i], body.block, FALSE).err = "nil"

\* The candidate passed every check before the fruits-hash test of line 157.
ReachedHashCheck ==
    /\ ReachedGapCheck
    /\ AnchoredGap >= MinTimeGap
    /\ Contiguous
    /\ FruitsValid

\* C26: a candidate that passed every earlier check is rejected with the
\* fruits-hash-mismatch error when the fruits root its header declares is not
\* the hash derived over its fruit list, the error reporting the derived hash
\* and the declared one; when the two are equal the candidate is accepted.
C26_FruitsRoot ==
    ReachedHashCheck
    => IF DeriveSha(body.block.Fruits) # body.block.FruitsHash
       THEN /\ vres.err = "fruits hash mismatch"
            /\ vres.have = DeriveSha(body.block.Fruits)
            /\ vres.want = body.block.FruitsHash
       ELSE vres.err = "nil"

C26_Witness ==
    /\ ReachedHashCheck
    /\ DeriveSha(body.block.Fruits) # body.block.FruitsHash
    /\ vres.err = "fruits hash mismatch"
    /\ vres.have # vres.want

C26_EqualRootAccepted ==
    /\ ReachedHashCheck
    /\ body.block.Number > 1
    /\ DeriveSha(body.block.Fruits) = body.block.FruitsHash
    /\ vres.err = "nil"

\* The position of the first fruit that does not anchor the number after the
\* one before it, and of the first fruit that ValidateFruit rejects;
\* FruitCount + 1 when there is none.
FirstBreak ==
    LET breaks == {i \in 1..FruitCount : Anchors[i] # ParentLastAnchor + i}
    IN IF breaks = {} THEN FruitCount + 1
       ELSE CHOOSE i \in breaks : \A j \in breaks : i <= j

FirstInvalid ==
    LET bad == {i \in 1..FruitCount : ValidateFruit(fc, body.block.Fruits[i], body.block, FALSE).err # "nil"}
    IN IF bad = {} THEN FruitCount + 1
       ELSE CHOOSE i \in bad : \A j \in bad : i <= j

AncestorError == IF ParentStored THEN "ErrPrunedAncestor" ELSE "ErrUnknownAncestor"

RangeUnresolved == FirstHeader = NilHeader \/ LastHeader = NilHeader

RootMismatch == DeriveSha(body.block.Fruits) # body.block.FruitsHash

\* The error of the first failing check when every fruit's sequence test
\* comes before the range, time and gap checks and before any ValidateFruit.
SequenceFirstError ==
    IF Known THEN "ErrKnownBlock"
    ELSE IF ~ParentCanonical THEN AncestorError
    ELSE IF ~CountInRange THEN "ErrNoFruits"
    ELSE IF ~Contiguous THEN "ErrInvalidFruits"
    ELSE IF RangeUnresolved THEN "ErrFutureBlock"
    ELSE IF BlockTimeBad THEN "ErrBlockTime"
    ELSE IF AnchoredGap < MinTimeGap THEN "ErrGapFruits"
    ELSE IF ~FruitsValid THEN ValidateFruit(fc, body.block.Fruits[FirstInvalid], body.block, FALSE).err
    ELSE IF RootMismatch THEN "fruits hash mismatch"
    ELSE "nil"

\* The error of the first failing check when the range, time and gap checks
\* come first and each fruit, in order, has its sequence test and then its
\* ValidateFruit.
LoopLastError ==
    IF Known THEN "ErrKnownBlock"
    ELSE IF ~ParentCanonical THEN AncestorError
    ELSE IF ~CountInRange THEN "ErrNoFruits"
    ELSE IF RangeUnresolved THEN "ErrFutureBlock"
    ELSE IF BlockTimeBad THEN "ErrBlockTime"
    ELSE IF AnchoredGap < MinTimeGap THEN "ErrGapFruits"
    ELSE IF FirstBreak <= FruitCount /\ FirstBreak <= FirstInvalid THEN "ErrInvalidFruits"
    ELSE IF FirstInvalid <= FruitCount
    THEN ValidateFruit(fc, body.block.Fruits[FirstInvalid], body.block, FALSE).err
    ELSE IF RootMismatch THEN "fruits hash mismatch"
    ELSE "nil"

\* C27 as claimed: ValidateBody returns the error of the earliest failing
\* check in the order known block, ancestor, fruit count, contiguity, range
\* resolution, block time, time gap, per-fruit validation, fruits root.
C27_SequenceTestFirst == Validated => vres.err = SequenceFirstError

\* C27: ValidateBody returns the error of the earliest failing check in the
\* order known block, ancestor, fruit count, range resolution, block time,
\* time gap, then for each fruit in order its sequence test followed by its
\* ValidateFruit, then fruits root; a future-reference, block-time or gap
\* failure is reported in preference to a contiguity violation.
C27_CheckOrder == Validated => vres.err = LoopLastError

\* A candidate that breaks the sequence and whose anchored gap is too small.
C27_Witness ==
    /\ ReachedGapCheck
    /\ ~Contiguous
    /\ AnchoredGap < MinTimeGap
    /\ vres.err = "ErrGapFruits"

\* The first fruit fails ValidateFruit and the second breaks the sequence.
C27_FruitErrorBeforeLaterBreak ==
    /\ ReachedGapCheck
    /\ AnchoredGap >= MinTimeGap
    /\ FirstInvalid = 1
    /\ FirstBreak = 2
    /\ vres.err = ValidateFruit(fc, FirstFruit, body.block, FALSE).err

\* Every condition on a candidate: it is not yet canonical, its parent is,
\* its fruit count is in range, its anchors continue the parent's, both ends
\* of its range resolve, at least MinTimeGap apart, it is not stamped before
\* its last fruit, every fruit passes ValidateFruit, and its fruits root is
\* the hash of its fruit list.
AllChecksPass ==
    /\ ~Known
    /\ ParentCanonical
    /\ CountInRange
    /\ Contiguous
    /\ ~RangeUnresolved
    /\ ~BlockTimeBad
    /\ AnchoredGap >= MinTimeGap
    /\ FruitsValid
    /\ ~RootMismatch

\* C28: ValidateBody returns nil exactly when the candidate is not already
\* canonical, its parent is canonical, its fruit count is at least 1 and within
\* [MinimumFruits, MaximumFruits], its anchors continue the parent's last
\* anchor one by one, its first and last anchors resolve in the fast chain,
\* its time is not below its last fruit's, the anchored time gap is at least
\* MinTimeGap, every fruit passes ValidateFruit and the fruits root matches.
C28_AcceptedExactlyWhenAllPass == Validated => (vres.err = "nil" <=> AllChecksPass)

\* A parent above the genesis ending at anchor n, and a candidate anchoring
\* n + 1, n + 2, n + 3.
C28_Witness ==
    /\ Validated
    /\ body.block.Number = 2
    /\ ParentLastAnchor >= 2
    /\ FruitCount = 3
    /\ Anchors = <<ParentLastAnchor + 1, ParentLastAnchor + 2, ParentLastAnchor + 3>>
    /\ AllChecksPass
    /\ vres.err = "nil"

(***************************************************************************)
(* ValidateFruit called on one fruit, against fast chains of several        *)
(* lengths.  The fruit stays in body until its verdict has been looked at.  *)
(***************************************************************************)
EngineOps == <<"VerifyFreshness", "VerifySnailHeader", "VerifySigns">>

FruitInit ==
    /\ db = EmptyDB
    /\ last = NoCall
    /\ \E a \in FastSteps, b \in FastSteps, n \in 1..(MaxFast + 1) :
          a # b /\ fc = [Time |-> SubSeq(FastTimes(a, b), 1, n)]
    /\ sc = SnailGenesisChain
    /\ vres = Verdict("none", <<>>)
    /\ dv = NoDerivation
    /\ running = NoCalls
    /\ body = NoBody

FruitTimes == {"nil", "before", "same", "after"}

\* The fruits a caller may pass: any anchored number, with the hash the fast
\* chain has at that number or another one, no time or a time around the
\* anchored header's, a sign hash that is or is not that of the signatures,
\* and any answers of the engine.
StandaloneFruit(f, k, known, time, signed, answers) ==
    LET h == HonestFruit(f, k)
    IN [h EXCEPT !.FastHash = IF known THEN FastHeaderHash(k) ELSE UnknownFastHash(k),
                 !.Time = CASE time = "nil" -> NilInt
                            [] time = "before" -> h.Time - 1
                            [] time = "same" -> h.Time
                            [] time = "after" -> h.Time + 1,
                 !.SignHash = IF signed THEN CalcSignHash(h.Signs) ELSE CalcSignHash(<<>>),
                 !.Freshness = IF answers[1] THEN "nil" ELSE EngineError(EngineOps[1]),
                 !.SnailHeader = IF answers[2] THEN "nil" ELSE EngineError(EngineOps[2]),
                 !.VerifySigns = IF answers[3] THEN "nil" ELSE EngineError(EngineOps[3])]

\* A fruit arrives.
ReceiveFruit ==
    /\ body = NoBody
    /\ \E k \in 0..(MaxFast + 1), known \in BOOLEAN, time \in FruitTimes, signed \in BOOLEAN,
          answers \in [1..3 -> BOOLEAN] :
        body' = [limits |-> FruitLimits, block |-> NilBlock,
                 fruit |-> StandaloneFruit(fc, k, known, time, signed, answers)]
    /\ UNCHANGED <<db, last, fc, sc, vres, dv, running>>

\* ValidateFruit on the fruit.
CallValidateFruit ==
    /\ body # NoBody
    /\ vres.err = "none"
    /\ \E canonical \in BOOLEAN : vres' = ValidateFruit(fc, body.fruit, NilBlock, canonical)
    /\ UNCHANGED <<db, last, fc, sc, dv, running, body>>

\* The verdict has been looked at.
ForgetFruit ==
    /\ body # NoBody
    /\ vres.err # "none"
    /\ body' = NoBody
    /\ vres' = Verdict("none", <<>>)
    /\ UNCHANGED <<db, last, fc, sc, dv, running>>

FruitNext == ReceiveFruit \/ CallValidateFruit \/ ForgetFruit

SpecFruit == FruitInit /\ [][FruitNext]_vars

\* The fruit in body has its verdict in vres.
FruitValidated == body # NoBody /\ vres.err # "none"

\* The fast header the fruit anchors, by hash and number.
AnchoredHeader == GetHeader(fc, body.fruit.FastHash, body.fruit.FastNumber)

BeyondFastHead == body.fruit.FastNumber > CurrentHeaderNumber(fc)

FruitTimeBad ==
    \/ body.fruit.Time = NilInt
    \/ AnchoredHeader.Time = NilInt
    \/ body.fruit.Time < AnchoredHeader.Time

SignHashBad == body.fruit.SignHash # CalcSignHash(body.fruit.Signs)

\* One of the four checks ValidateFruit makes itself fails.
LocalCheckFails ==
    BeyondFastHead \/ AnchoredHeader = NilHeader \/ FruitTimeBad \/ SignHashBad

\* The engine's answers to its three operations for the fruit, and the
\* position of the first that is an error (4 when none is).
EngineAnswers == <<body.fruit.Freshness, body.fruit.SnailHeader, body.fruit.VerifySigns>>

FirstEngineFailure ==
    IF EngineAnswers[1] # "nil" THEN 1
    ELSE IF EngineAnswers[2] # "nil" THEN 2
    ELSE IF EngineAnswers[3] # "nil" THEN 3
    ELSE 4

OrderedFruitError ==
    IF BeyondFastHead THEN "ErrFutureBlock"
    ELSE IF AnchoredHeader = NilHeader THEN "ErrInvalidFast"
    ELSE IF FruitTimeBad THEN "ErrFruitTime"
    ELSE IF SignHashBad THEN "ErrInvalidSignHash"
    ELSE IF FirstEngineFailure <= 3 THEN EngineAnswers[FirstEngineFailure]
    ELSE "nil"

\* The operation and the fruit of each call of a verdict.
OperationsOf(calls) ==
    IF calls = <<>> THEN <<>>
    ELSE [i \in 1..Len(calls) |-> [op |-> calls[i].op, FastNumber |-> calls[i].FastNumber]]

\* The engine operations called: none when a local check fails, else the
\* three in order up to the first that fails.
OrderedEngineCalls ==
    IF LocalCheckFails THEN <<>>
    ELSE LET n == IF FirstEngineFailure <= 3 THEN FirstEngineFailure ELSE 3
         IN [i \in 1..n |-> EngineCall(EngineOps[i], body.fruit)]

\* C29: ValidateFruit returns the first failure in the order: anchored number
\* above the fast chain's current header number (ErrFutureBlock), anchored
\* hash and number without a fast header (ErrInvalidFast), fruit time below
\* the anchored header's (ErrFruitTime), declared sign hash not the one
\* computed from the signatures (ErrInvalidSignHash), then VerifyFreshness,
\* VerifySnailHeader and VerifySigns of the engine, each called only when
\* every earlier check passed.
C29_FruitCheckOrder ==
    FruitValidated => (vres.err = OrderedFruitError /\ OperationsOf(vres.calls) = OrderedEngineCalls)

\* Freshness passes, header verification fails, and the signatures would
\* fail too.
C29_Witness ==
    /\ FruitValidated
    /\ ~LocalCheckFails
    /\ EngineAnswers[1] = "nil"
    /\ EngineAnswers[2] # "nil"
    /\ EngineAnswers[3] # "nil"
    /\ vres.err = EngineAnswers[2]
    /\ Len(vres.calls) = 2

\* A fruit wrong in every way at once.
C29_FutureBeforeAll ==
    /\ FruitValidated
    /\ BeyondFastHead
    /\ body.fruit.FastHash = UnknownFastHash(body.fruit.FastNumber)
    /\ body.fruit.Time = NilInt
    /\ SignHashBad
    /\ FirstEngineFailure = 1
    /\ vres.err = "ErrFutureBlock"

C29_InvalidFastBeforeTime ==
    /\ FruitValidated
    /\ ~BeyondFastHead
    /\ AnchoredHeader = NilHeader
    /\ body.fruit.Time = NilInt
    /\ SignHashBad
    /\ vres.err = "ErrInvalidFast"

C29_TimeBeforeSignHash ==
    /\ FruitValidated
    /\ AnchoredHeader # NilHeader
    /\ body.fruit.Time # NilInt
    /\ body.fruit.Time < AnchoredHeader.Time
    /\ SignHashBad
    /\ vres.err = "ErrFruitTime"

C29_SignHashBeforeEngine ==
    /\ FruitValidated
    /\ SignHashBad
    /\ FirstEngineFailure = 1
    /\ vres.err = "ErrInvalidSignHash"
    /\ vres.calls = <<>>

C29_FruitAccepted ==
    /\ FruitValidated
    /\ body.fruit.Time > AnchoredHeader.Time
    /\ vres.err = "nil"
    /\ Len(vres.calls) = 3

(***************************************************************************)
(* The engine's errors in the verdicts of ValidateBody (SpecVerdict).       *)
(***************************************************************************)
\* The fruit of the candidate an engine call was made for, and the engine's
\* answer to that call.
FruitOfCall(call) ==
    CHOOSE i \in 1..FruitCount : body.block.Fruits[i].FastNumber = call.FastNumber

AnswerTo(call) ==
    LET fruit == body.block.Fruits[FruitOfCall(call)]
    IN CASE call.op = "VerifyFreshness" -> fruit.Freshness
         [] call.op = "VerifySnailHeader" -> fruit.SnailHeader
         [] call.op = "VerifySigns" -> fruit.VerifySigns

\* C30: when an engine operation called for a fruit of the candidate answers
\* with an error, ValidateFruit returns that error for the fruit, ValidateBody
\* returns the same error, no engine operation is called after it, and no
\* operation is called twice for one fruit.
C30_EngineErrorPropagates ==
    Validated
    => /\ \A i \in 1..Len(vres.calls) :
             AnswerTo(vres.calls[i]) # "nil"
             => /\ ValidateFruit(fc, body.block.Fruits[FruitOfCall(vres.calls[i])], body.block, FALSE).err
                      = AnswerTo(vres.calls[i])
                /\ vres.err = AnswerTo(vres.calls[i])
                /\ i = Len(vres.calls)
       /\ \A i \in 1..Len(vres.calls), j \in 1..Len(vres.calls) :
             vres.calls[i] = vres.calls[j] => i = j

\* The first fruit passes the engine and the signatures of the second do not.
C30_Witness ==
    /\ Validated
    /\ Len(vres.calls) = 6
    /\ vres.calls[6] = EngineCall("VerifySigns", body.block.Fruits[2])
    /\ AnswerTo(vres.calls[6]) = EngineError("VerifySigns")
    /\ vres.err = EngineError("VerifySigns")

C30_FreshnessErrorReturned ==
    /\ Validated
    /\ Len(vres.calls) = 1
    /\ vres.err = EngineError("VerifyFreshness")

(***************************************************************************)
(* VerifySnailSeal called on one header with either value of isFruit.       *)
(***************************************************************************)
SealInit ==
    /\ db = EmptyDB
    /\ last = NoCall
    /\ \E a \in FastSteps, b \in FastSteps : fc = [Time |-> FastTimes(a, b)]
    /\ sc = SnailGenesisChain
    /\ vres = Verdict("none", <<>>)
    /\ dv = NoDerivation
    /\ running = NoCalls
    /\ body = NoBody

SealAnswers == {"nil", EngineError("VerifySnailSeal"), EngineError("VerifySnailSeal of a block")}

\* A header arrives with the caller's isFruit.
ReceiveHeader ==
    /\ body = NoBody
    /\ \E number \in 0..(MaxFast + 1), asFruit \in SealAnswers, asBlock \in SealAnswers,
          isFruit \in BOOLEAN :
        body' = [limits |-> FruitLimits, block |-> NilBlock,
                 header |-> [Number |-> number, FruitSeal |-> asFruit, BlockSeal |-> asBlock],
                 isFruit |-> isFruit]
    /\ UNCHANGED <<db, last, fc, sc, vres, dv, running>>

\* VerifySnailSeal on the header, with the snail chain as chain reader.
CallVerifySnailSeal ==
    /\ body # NoBody
    /\ vres.err = "none"
    /\ vres' = VerifySnailSeal(sc, body.header, body.isFruit)
    /\ UNCHANGED <<db, last, fc, sc, dv, running, body>>

\* The verdict has been looked at.
ForgetHeader ==
    /\ body # NoBody
    /\ vres.err # "none"
    /\ body' = NoBody
    /\ vres' = Verdict("none", <<>>)
    /\ UNCHANGED <<db, last, fc, sc, dv, running>>

SealNext == ReceiveHeader \/ CallVerifySnailSeal \/ ForgetHeader

SpecSeal == SealInit /\ [][SealNext]_vars

\* C31: VerifySnailSeal returns the answer of the engine's seal check made
\* with the given chain and header and the flag true, and its one call of the
\* engine has the flag true, whether the caller passed true or false.
C31_SealPassThrough ==
    (body # NoBody /\ vres.err # "none")
    => /\ vres.err = body.header.FruitSeal
       /\ vres.calls = <<[op |-> "VerifySnailSeal", chain |-> sc,
                          Number |-> body.header.Number, isFruit |-> TRUE]>>

\* The caller passed false, and the engine would answer a block otherwise.
C31_Witness ==
    /\ body # NoBody
    /\ ~body.isFruit
    /\ body.header.FruitSeal # body.header.BlockSeal
    /\ body.header.FruitSeal # "nil"
    /\ vres.err = body.header.FruitSeal
    /\ vres.calls[1].isFruit

(***************************************************************************)
(* Two validations running concurrently on one validator.  A call holds    *)
(* its own locals (temp, the position in the fruit list, the verdict so    *)
(* far) and takes one check of ValidateBody per step; a step returns the   *)
(* call and the two chains as it leaves them.                              *)
(***************************************************************************)
IdleValidation == [pc |-> "idle"]

StartedBody(block) ==
    [op |-> "ValidateBody", block |-> block, pc |-> "known", temp |-> 0, i |-> 1,
     verdict |-> Verdict("none", <<>>)]

StartedFruit(fruit) ==
    [op |-> "ValidateFruit", fruit |-> fruit, pc |-> "fruit", verdict |-> Verdict("none", <<>>)]

StartedSeal(header, isFruit) ==
    [op |-> "VerifySnailSeal", header |-> header, isFruit |-> isFruit, pc |-> "seal",
     verdict |-> Verdict("none", <<>>)]

Returned(call, verdict) == [call EXCEPT !.pc = "done", !.verdict = verdict]

\* The next check of the call: the call after it.
stepOf(f, s, call) ==
    LET block == call.block
        fruits == block.Fruits
        count == Len(fruits)
        preBlock == GetBlock(s, block.ParentHash, block.Number - 1)
        lastFruit == fruits[count]
        maxfb == GetHeader(f, lastFruit.FastHash, lastFruit.FastNumber)
        minfb == GetHeader(f, fruits[1].FastHash, fruits[1].FastNumber)
        fruit == fruits[call.i]
        r == ValidateFruit(f, fruit, block, FALSE)
        calls == call.verdict.calls
    IN CASE call.pc = "known" ->
              IF IsCanonicalBlock(s, HashOf(block), block.Number)
              THEN Returned(call, Verdict("ErrKnownBlock", <<>>))
              ELSE [call EXCEPT !.pc = "ancestor"]
         [] call.pc = "ancestor" ->
              IF IsCanonicalBlock(s, block.ParentHash, block.Number - 1)
              THEN [call EXCEPT !.pc = "count"]
              ELSE IF ~HasBlock(s, block.ParentHash, block.Number - 1)
              THEN Returned(call, Verdict("ErrUnknownAncestor", <<>>))
              ELSE Returned(call, Verdict("ErrPrunedAncestor", <<>>))
         [] call.pc = "count" ->
              IF count = 0 \/ count > MaximumFruits \/ count < MinimumFruits
              THEN Returned(call, Verdict("ErrNoFruits", <<>>))
              ELSE [call EXCEPT !.pc = "parent"]
         [] call.pc = "parent" ->
              IF preBlock = NilBlock THEN Returned(call, Verdict("ErrUnknownAncestor", <<>>))
              ELSE IF preBlock.Number > 0 /\ preBlock.Fruits = <<>>
              THEN Returned(call, Verdict("panic", <<>>))
              ELSE [call EXCEPT !.pc = "range",
                                !.temp = IF preBlock.Number > 0
                                         THEN preBlock.Fruits[Len(preBlock.Fruits)].FastNumber
                                         ELSE 0]
         [] call.pc = "range" ->
              IF minfb = NilHeader \/ maxfb = NilHeader
              THEN Returned(call, Verdict("ErrFutureBlock", <<>>))
              ELSE [call EXCEPT !.pc = "time"]
         [] call.pc = "time" ->
              IF lastFruit.Time = NilInt \/ block.Time = NilInt \/ block.Time < lastFruit.Time
              THEN Returned(call, Verdict("ErrBlockTime", <<>>))
              ELSE [call EXCEPT !.pc = "gap"]
         [] call.pc = "gap" ->
              IF maxfb.Time - minfb.Time < MinTimeGap
              THEN Returned(call, Verdict("ErrGapFruits", <<>>))
              ELSE [call EXCEPT !.pc = "loop"]
         [] call.pc = "loop" ->
              IF fruit.FastNumber - call.temp # 1
              THEN Returned(call, Verdict("ErrInvalidFruits", calls))
              ELSE IF r.err # "nil" THEN Returned(call, Verdict(r.err, calls \o r.calls))
              ELSE [call EXCEPT !.temp = fruit.FastNumber,
                                !.i = call.i + 1,
                                !.verdict = Verdict("none", calls \o r.calls),
                                !.pc = IF call.i = count THEN "hash" ELSE "loop"]
         [] call.pc = "hash" ->
              IF DeriveSha(fruits) # block.FruitsHash
              THEN Returned(call, HashMismatch(DeriveSha(fruits), block.FruitsHash, calls))
              ELSE Returned(call, Verdict("nil", calls))
         [] call.pc = "fruit" -> Returned(call, ValidateFruit(f, call.fruit, NilBlock, TRUE))
         [] call.pc = "seal" ->
              Returned(call, VerifySnailSeal(s, call.header, call.isFruit))

\* A validator that stores the candidate it accepts as the canonical head.
validateStep_storesAccepted(f, s, call) ==
    LET next == stepOf(f, s, call)
    IN [call |-> next, fast |-> f,
        snail |-> IF call.pc = "hash" /\ next.verdict.err = "nil"
                  THEN [canon |-> Append(s.canon, HashOf(call.block)),
                        blocks |-> s.blocks \cup {call.block}]
                  ELSE s]

\* One step of a call of ValidateBody, ValidateFruit or VerifySnailSeal: no
\* statement of lines 93-225 writes to a chain or to a field of the validator.
validateStep(f, s, call) == [call |-> stepOf(f, s, call), fast |-> f, snail |-> s]

\* The snail chain with an honest block at height 1.
RECURSIVE HonestChain(_, _)
HonestChain(f, height) ==
    IF height = 0 THEN SnailGenesisChain
    ELSE LET s == HonestChain(f, height - 1)
             from == 3 * (height - 1)
             block == CandidateBlock(f, s, height, <<from + 1, from + 2, from + 3>>, "none")
         IN [canon |-> Append(s.canon, HashOf(block)), blocks |-> s.blocks \cup {block}]

ConcurrentInit ==
    /\ db = EmptyDB
    /\ last = NoCall
    /\ \E a \in FastSteps, b \in FastSteps : a # b /\ fc = [Time |-> FastTimes(a, b)]
    /\ \E height \in 0..1 : sc = HonestChain(fc, height)
    /\ vres = Verdict("none", <<>>)
    /\ dv = NoDerivation
    /\ running = [id \in CallIds |-> IdleValidation]
    /\ body = NoBody

\* The candidates of the concurrent calls: for the next height, anchoring the
\* next three fast blocks, the next two, or skipping one.
ConcurrentNumbers(s) ==
    LET t == 3 * (Len(s.canon) - 1)
    IN {<<t + 1, t + 2, t + 3>>, <<t + 1, t + 2>>, <<t + 1, t + 3>>}

ConcurrentDefects ==
    {[kind |-> "none", pos |-> 0], [kind |-> "orphan", pos |-> 0], [kind |-> "early", pos |-> 0],
     [kind |-> "fruitsHash", pos |-> 0], [kind |-> "signs", pos |-> 2]}

ConcurrentCalls(f, s) ==
    {StartedBody(DefectiveBlock(f, s, Len(s.canon), nums, defect)) :
        nums \in ConcurrentNumbers(s), defect \in ConcurrentDefects}
    \cup {StartedBody(GetBlock(s, s.canon[Len(s.canon)], Len(s.canon) - 1))}
    \cup {StartedFruit(DefectiveFruit(f, k, kind)) :
            k \in {1, MaxFast + 1}, kind \in {"none", "snailHeader"}}
    \cup {StartedSeal([Number |-> 1, FruitSeal |-> "nil",
                       BlockSeal |-> EngineError("VerifySnailSeal")], isFruit) :
            isFruit \in BOOLEAN}

\* A caller starts a validation.
StartValidation(id) ==
    /\ running[id].pc = "idle"
    /\ \E call \in ConcurrentCalls(fc, sc) : running' = [running EXCEPT ![id] = call]
    /\ UNCHANGED <<db, last, fc, sc, vres, dv, body>>

\* A running validation makes its next check.
StepValidation(id) ==
    /\ running[id].pc \notin {"idle", "done"}
    /\ LET r == validateStep(fc, sc, running[id])
       IN /\ running' = [running EXCEPT ![id] = r.call]
          /\ fc' = r.fast
          /\ sc' = r.snail
    /\ UNCHANGED <<db, last, vres, dv, body>>

\* The caller takes the result.
ReturnValidation(id) ==
    /\ running[id].pc = "done"
    /\ running' = [running EXCEPT ![id] = IdleValidation]
    /\ UNCHANGED <<db, last, fc, sc, vres, dv, body>>

ConcurrentNext ==
    \E id \in CallIds : StartValidation(id) \/ StepValidation(id) \/ ReturnValidation(id)

SpecConcurrent == ConcurrentInit /\ [][ConcurrentNext]_vars

\* The result of a call that runs alone on chains f and s.
AloneResult(f, s, call) ==
    CASE call.op = "ValidateBody" -> ValidateBody(f, s, call.block)
      [] call.op = "ValidateFruit" -> ValidateFruit(f, call.fruit, NilBlock, TRUE)
      [] call.op = "VerifySnailSeal" -> VerifySnailSeal(s, call.header, call.isFruit)

\* C32: no step of ValidateBody, ValidateFruit or VerifySnailSeal changes the
\* snail chain or the fast chain, on success and on every failure, and every
\* call that ends, however its steps are interleaved with those of another
\* call, has the result it has when it runs alone.
C32_ValidationsIndependent ==
    [][/\ fc' = fc
       /\ sc' = sc
       /\ \A id \in CallIds :
             running'[id].pc = "done"
             => running'[id].verdict = AloneResult(fc', sc', running'[id])]_vars

\* One call has accepted its candidate while another call on the same
\* candidate is in its fruit loop.
C32_Witness ==
    /\ running[1].pc = "done"
    /\ running[1].op = "ValidateBody"
    /\ running[1].verdict.err = "nil"
    /\ running[2].pc = "loop"
    /\ running[2].block = running[1].block

C32_FailureReached ==
    /\ running[1].pc = "done"
    /\ running[1].verdict.err = "fruits hash mismatch"
    /\ running[2].pc = "done"
    /\ running[2].op = "VerifySnailSeal"

(***************************************************************************)
(* The two ledgers together (Spec).                                         *)
(***************************************************************************)
\* The fast hash anchored by the single fruit of the snail genesis block with
\* hash h: the snail header commits to its fruit.
GenesisFruitAnchor(h) ==
    [kind |-> "fast", root |-> h.root, gasLimit |-> h.gasLimit, number |-> h.number,
     nonce |-> 0, difficulty |-> 0]

BothLedgersSet(d) == d.fastCanon # ZeroHash /\ d.snailCanon # ZeroHash

\* C33: whenever both ledgers have a canonical block at height 0, the single
\* fruit of the snail ledger's canonical genesis anchors the hash of the fast
\* ledger's canonical genesis.
C33_SnailGenesisAnchorsFast ==
    BothLedgersSet(db) => GenesisFruitAnchor(db.snailCanon) = db.fastCanon

\* SetupGenesisBlock itself commits a snail genesis that anchors another fast
\* genesis than the stored one.
C33_SetupBreaksAnchor ==
    /\ IsSetup
    /\ last.pre.snailCanon = ZeroHash
    /\ BothLedgersSet(db)
    /\ GenesisFruitAnchor(db.snailCanon) # db.fastCanon

\* C34: when SetupGenesisBlock returns a nil error, the fast hash it returns
\* is the fast ledger's canonical hash at height 0 and the snail hash it
\* returns is the snail ledger's canonical hash at height 0, as stored when
\* the call returns.
C34_ReturnedHashesCanonical ==
    (IsSetup /\ ~last.ret.panic /\ last.ret.err = "nil")
    => /\ last.ret.fastHash = db.fastCanon
       /\ last.ret.snailHash = db.snailCanon

\* The call returns a nil error, the stored fast hash, and a snail hash that
\* is not the stored one.
C34_SnailHashNotStored ==
    /\ IsSetup
    /\ ~last.ret.panic
    /\ last.ret.err = "nil"
    /\ last.ret.fastHash = db.fastCanon
    /\ last.ret.snailHash # db.snailCanon
    /\ last.ret.snailHash = ToSnailBlock(last.genesis).Hash

\* The entries of each ledger other than the fast chain configuration, and
\* the writes that set them.
FastLedgerEntries(d) ==
    <<d.fastCanon, d.fastBlocks, d.fastReceipts, d.fastHeadBlock, d.fastHeadHeader, d.fastGcBR>>

SnailLedgerEntries(d) ==
    <<d.snailCanon, d.snailBlocks, d.snailTd, d.snailFt, d.snailHeadBlock, d.snailHeadHeader>>

FastLedgerOps ==
    {"fast.WriteBlock", "fast.WriteReceipts", "fast.WriteCanonicalHash",
     "fast.WriteHeadBlockHash", "fast.WriteHeadHeaderHash", "fast.WriteStateGcBR"}

SnailLedgerOps ==
    {"snail.WriteTd", "snail.WriteBlock", "snail.WriteFtLookupEntries",
     "snail.WriteCanonicalHash", "snail.WriteHeadBlockHash", "snail.WriteHeadHeaderHash"}

IssuesNone(ws, ops) == \A i \in DOMAIN ws : ws[i].op \notin ops

C35_ConfigRewritten ==
    /\ IsSetup
    /\ BothLedgersSet(last.pre)
    /\ WritesOf(last.ret.writes, "fast.WriteChainConfig") # {}
    /\ db.fastCfg # last.pre.fastCfg
    /\ FastLedgerEntries(db) = FastLedgerEntries(last.pre)

\* The errors of lines 95-104, returned before the parent block is read at
\* line 117.
EarlyErrors == {"ErrKnownBlock", "ErrUnknownAncestor", "ErrPrunedAncestor"}

\* C36: a candidate of height 0 is never accepted: its validation ends with
\* ErrKnownBlock when it is the canonical genesis and with an ancestor error
\* otherwise, whatever parent hash it names, before the parent block is read
\* and with no fruit check made.
C36_HeightZeroRejected ==
    (Validated /\ body.block.Number = 0)
    => /\ vres.err \in EarlyErrors
       /\ vres.err = "ErrKnownBlock" <=> HashOf(body.block) = sc.canon[1]
       /\ vres.calls = <<>>

\* A height-0 candidate with fruits in range that names the canonical genesis
\* as its parent.
C36_Witness ==
    /\ Validated
    /\ body.block.Number = 0
    /\ body.block.ParentHash = sc.canon[1]
    /\ HashOf(body.block) # sc.canon[1]
    /\ Len(body.block.Fruits) \in MinimumFruits..MaximumFruits
    /\ vres.err = "ErrUnknownAncestor"

(***************************************************************************)
(* ValidateBody against the parent the store returns (SpecParent).  The    *)
(* canonical block at height 1 is read through bc.GetBlock as the store    *)
(* holds it: an honest block, or one stored with an empty fruit list.      *)
(***************************************************************************)
\* The snail chain whose canonical block at height 1 has no fruits.
FruitlessChain(f) ==
    LET block == CandidateBlock(f, SnailGenesisChain, 1, <<>>, "none")
    IN [canon |-> Append(SnailGenesisChain.canon, HashOf(block)),
        blocks |-> SnailGenesisChain.blocks \cup {block}]

ParentInit ==
    /\ db = EmptyDB
    /\ last = NoCall
    /\ \E a \in FastSteps, b \in FastSteps : a # b /\ fc = [Time |-> FastTimes(a, b)]
    /\ sc \in {SnailGenesisChain, HonestChain(fc, 1), FruitlessChain(fc)}
    /\ vres = Verdict("none", <<>>)
    /\ dv = NoDerivation
    /\ running = NoCalls
    /\ body = NoBody

\* A candidate for the next height arrives, with a fruit count in range.
ReceiveChild ==
    /\ body.block = NilBlock
    /\ \E len \in MinimumFruits..MaximumFruits : \E nums \in NumberSteps(len) :
        body' = [body EXCEPT !.block = CandidateBlock(fc, sc, Len(sc.canon), nums, "none")]
    /\ UNCHANGED <<db, last, fc, sc, vres, dv, running>>

ValidateChild ==
    /\ body.block # NilBlock
    /\ vres.err = "none"
    /\ vres' = ValidateBody(fc, sc, body.block)
    /\ UNCHANGED <<db, last, fc, sc, dv, running, body>>

ForgetChild ==
    /\ body.block # NilBlock
    /\ vres.err # "none"
    /\ body' = [body EXCEPT !.block = NilBlock]
    /\ vres' = Verdict("none", <<>>)
    /\ UNCHANGED <<db, last, fc, sc, dv, running>>

ParentNext == ReceiveChild \/ ValidateChild \/ ForgetChild

SpecParent == ParentInit /\ [][ParentNext]_vars

\* preBlock of line 117 for the candidate in body.
ParentOf == GetBlock(sc, body.block.ParentHash, body.block.Number - 1)

\* The verdict of the checks of lines 126-159 on the candidate in body when
\* the sequence test starts from temp.
VerdictFrom(temp) ==
    LET fruits == body.block.Fruits
        lastFruit == fruits[Len(fruits)]
        maxfb == GetHeader(fc, lastFruit.FastHash, lastFruit.FastNumber)
        minfb == GetHeader(fc, fruits[1].FastHash, fruits[1].FastNumber)
        loop == validateFruits(fc, fruits, temp, body.block)
    IN IF minfb = NilHeader \/ maxfb = NilHeader THEN Verdict("ErrFutureBlock", <<>>)
       ELSE IF lastFruit.Time = NilInt \/ body.block.Time = NilInt
               \/ body.block.Time < lastFruit.Time
       THEN Verdict("ErrBlockTime", <<>>)
       ELSE IF maxfb.Time - minfb.Time < MinTimeGap THEN Verdict("ErrGapFruits", <<>>)
       ELSE IF loop.err # "nil" THEN loop
       ELSE IF DeriveSha(fruits) # body.block.FruitsHash
       THEN HashMismatch(DeriveSha(fruits), body.block.FruitsHash, loop.calls)
       ELSE Verdict("nil", loop.calls)

C37_GenesisParentStartsAtZero ==
    (Validated /\ ParentCanonical /\ ParentOf.Number = 0) => vres = VerdictFrom(0)

\* A parent above the genesis with fruits: the test starts from its last anchor.
C37_ParentWithFruits ==
    (Validated /\ ParentCanonical /\ ParentOf.Number > 0 /\ ParentOf.Fruits # <<>>)
    => vres = VerdictFrom(ParentOf.Fruits[Len(ParentOf.Fruits)].FastNumber)

\* The index of line 124 is out of range.
C37_IndexOutOfRange ==
    /\ Validated
    /\ ParentCanonical
    /\ ParentOf.Number > 0
    /\ ParentOf.Fruits = <<>>
    /\ vres.err = "panic"

(***************************************************************************)
(* The sequence test and the engine calls of the fruit loop (SpecVerdict). *)
(***************************************************************************)
\* The candidate passed the checks of lines 95-140 and entered the loop of
\* line 142.
ReachedLoop == ReachedGapCheck /\ AnchoredGap >= MinTimeGap

\* Every engine call of the verdict is for an earlier or the same fruit as
\* the calls after it.
CallsInListOrder ==
    \A i \in 1..Len(vres.calls), j \in 1..Len(vres.calls) :
        i < j => FruitOfCall(vres.calls[i]) <= FruitOfCall(vres.calls[j])

\* Every VerifyFreshness call was given the candidate's header and the
\* canonical flag false.
CandidateAsContext ==
    \A i \in 1..Len(vres.calls) :
        vres.calls[i].op = "VerifyFreshness"
        => /\ vres.calls[i].blockHeader = HeaderOf(body.block)
           /\ vres.calls[i].canonical = FALSE

\* The fruits the engine was called for.
FruitsCalled == {FruitOfCall(vres.calls[i]) : i \in 1..Len(vres.calls)}

\* C38 as claimed: no engine operation is called for any fruit unless every
\* fruit of the candidate passes the sequence test; a candidate with a gap at
\* any position is rejected with ErrInvalidFruits without an engine call;
\* ValidateFruit is applied in list order with the candidate as containing
\* block and the canonical flag false.
C38_SequencePassBeforeEngine ==
    ReachedLoop
    => /\ vres.calls # <<>> => Contiguous
       /\ ~Contiguous => (vres.err = "ErrInvalidFruits" /\ vres.calls = <<>>)
       /\ CallsInListOrder
       /\ CandidateAsContext

\* C38: no engine operation is called for a fruit unless that fruit and every
\* fruit before it in the list pass the sequence test; a candidate whose
\* first gap is at position k, the fruits before it passing ValidateFruit, is
\* rejected with ErrInvalidFruits after the three engine calls of each of
\* those k - 1 fruits, so without any engine call only when k is 1;
\* ValidateFruit is applied in list order with the candidate as containing
\* block and the canonical flag false, to every fruit when none fails.
C38_SequenceTestPerFruit ==
    ReachedLoop
    => /\ \A i \in FruitsCalled : i < FirstBreak
       /\ (FirstBreak <= FruitCount /\ FirstBreak <= FirstInvalid)
          => /\ vres.err = "ErrInvalidFruits"
             /\ FruitsCalled = 1..(FirstBreak - 1)
             /\ Len(vres.calls) = 3 * (FirstBreak - 1)
       /\ CallsInListOrder
       /\ CandidateAsContext
       /\ (Contiguous /\ FruitsValid)
          => /\ FruitsCalled = 1..FruitCount
             /\ Len(vres.calls) = 3 * FruitCount

\* The first fruit passes both tests and the second breaks the sequence: the
\* engine has been called three times when ErrInvalidFruits is returned.
C38_Witness ==
    /\ ReachedLoop
    /\ FirstBreak = 2
    /\ FirstInvalid > 1
    /\ vres.err = "ErrInvalidFruits"
    /\ Len(vres.calls) = 3
    /\ vres.calls[1] = FreshnessCall(FirstFruit, body.block, FALSE)

\* A break at the first fruit: no engine call.
C38_BreakAtFirstFruit ==
    /\ ReachedLoop
    /\ FirstBreak = 1
    /\ vres.err = "ErrInvalidFruits"
    /\ vres.calls = <<>>

====
